---- MODULE Spec2Model ----
(***************************************************************************)
(* Model of src/src/utils/api.ts: the rate-limited request gateway         *)
(* (rateLimit, processQueue, queueRequest, hasRecentlyFailed,              *)
(* recordFailedRequest, makeApiRequest) and the thread grouping engine     *)
(* (groupThreads).                                                         *)
(*                                                                         *)
(* One action is one macrotask of the JavaScript event loop together with  *)
(* the microtasks it schedules: the code runs to completion between two    *)
(* suspension points (a setTimeout or the XMLHttpRequest).                 *)
(*                                                                         *)
(* Time is in milliseconds.  The gateway only ever compares differences of *)
(* instants, so every instant is stored relative to the present: Date.now()*)
(* reads now = 0, an instant in the past is negative, a deadline positive, *)
(* and the passing of d milliseconds subtracts d from every stored         *)
(* instant.  An instant so old that no comparison of the code can tell it  *)
(* from an older one stops ageing.                                         *)
(***************************************************************************)
EXTENDS Integers, Sequences, FiniteSets, TLC

VARIABLES lastApiCallTime, requestQueue, isProcessingQueue,
          failedRequests, reqs, workers, fire, idle, jumps,
          tweets, grouped, gpc, regrouped,
          config, rejected, userTweets, fu, ordered, normalized, runs

gwVars == <<lastApiCallTime, requestQueue, isProcessingQueue,
            failedRequests, reqs, workers, fire, idle, jumps>>
gtVars == <<tweets, grouped, gpc, regrouped>>
cfVars == <<config, rejected>>
fuVars == <<userTweets, fu>>
soVars == <<ordered>>
auxVars == <<normalized, runs>>
vars == <<lastApiCallTime, requestQueue, isProcessingQueue,
          failedRequests, reqs, workers, fire, idle, jumps,
          tweets, grouped, gpc, regrouped,
          config, rejected, userTweets, fu, ordered, normalized, runs>>

(***************************************************************************)
(* Program constants (api.ts lines 21-24, 159).                            *)
(***************************************************************************)
MIN_API_CALL_INTERVAL == 2000
MAX_RETRIES == 2
RETRY_DELAY == 3000
FAILED_REQUEST_EXPIRY == 600000
RETRY_AFTER_429 == 60000

(***************************************************************************)
(* Bounds of the model.                                                    *)
(***************************************************************************)
MaxReq == 3
MaxLatency == 2000
MaxIdle == 1
MaxJumps == 1

Urls == {"u1", "u2"}
Statuses == {200, 429, 500, 0}
Bodies == {"json", "garbage"}
Quantum == MIN_API_CALL_INTERVAL \div 2
Steps == {RETRY_AFTER_429, FAILED_REQUEST_EXPIRY}

\* Date.now()
now == 0

\* TwitterConfig as the module is loaded (lines 31-37).
DefaultConfig ==
  [fetchLimit |-> 50, maxTweets |-> 200, threadsToProcess |-> 10,
   maxContinuations |-> 3, replyMaxPages |-> 4]

\* A field that is undefined or null; a user id.
None == 0
Self == 11

\* fetchAllReplies has not been called.  History: fetched is the number of
\* pages that arrived, page is <<the page that has just arrived>> during the
\* pause after it: how many of its replies were accepted, how many it
\* held, its continuation token.
NoReplies ==
  [tweetId |-> None, allReplies |-> <<>>, uniqueReplyIds |-> {},
   continuationToken |-> None, attempts |-> 0, pageCount |-> 0, fetched |-> 0,
   page |-> <<>>]

\* No call of fetchUserTweets is under way.  replies is <<the list the last
\* fetchAllReplies returned>>.  History: n is the number of calls so far,
\* result <<the returned list>>, cached and failed whether it came from the
\* cache or from the catch block, why what ended the call, capped whether
\* the last fetchAllReplies returned with replyMaxPages pages fetched and a
\* continuation token left.
NoFetch ==
  [pc |-> "idle", n |-> 0, username |-> <<>>, maxTweets |-> 0,
   allTweets |-> <<>>, uniqueTweetIds |-> {}, continuationToken |-> None,
   continuationCount |-> 0, phase |-> "none", todo |-> <<>>,
   nextToken |-> None, fr |-> NoReplies, replies |-> <<>>,
   capped |-> FALSE,
   result |-> <<>>, cached |-> FALSE, failed |-> FALSE, why |-> "none"]

\* A created_at string that Date cannot parse.
InvalidDate == 0 - 1

\* new Date(x).getTime() - new Date(y).getTime() as a sort comparator's
\* value.  getTime() of a date that does not parse is NaN and nothing is
\* thrown, so the catch blocks of lines 378-381, 651-654 and 748-750 are
\* never entered; Array.prototype.sort takes a NaN from its comparator as
\* +0.
DateDiff(x, y) == IF x = InvalidDate \/ y = InvalidDate THEN 0 ELSE x - y

Max(a, b) == IF a >= b THEN a ELSE b
Min(a, b) == IF a <= b THEN a ELSE b

RECURSIVE Pow2(_)
Pow2(n) == IF n = 0 THEN 1 ELSE 2 * Pow2(n - 1)

\* An absent failure record; retryAfter is <<>> (undefined) or <<deadline>>.
NoRecord == [timestamp |-> 0, errorCode |-> -1, retryAfter |-> <<>>,
             attempt |-> 0]

(***************************************************************************)
(* rateLimit: the time the caller has to sleep before lastApiCallTime is   *)
(* set; 0 when it does not sleep.                                          *)
(***************************************************************************)
\* A rateLimit that never sleeps.
RateLimitNoWait(t, last) == 0

RateLimitDelay(t, last) ==
  IF t - last < MIN_API_CALL_INTERVAL
    THEN MIN_API_CALL_INTERVAL - (t - last)
    ELSE 0

(***************************************************************************)
(* hasRecentlyFailed: the answer, and the cache after the lazy purge.      *)
(***************************************************************************)
\* A record that expires after the retry-after time whatever its status.
RecordExpiredEarly(rec, t) ==
  \/ t - rec.timestamp > RETRY_AFTER_429
  \/ rec.retryAfter # <<>> /\ t > rec.retryAfter[1]

\* A record whose retry-after deadline is ignored.
RecordExpiredNoDeadline(rec, t) ==
  t - rec.timestamp > FAILED_REQUEST_EXPIRY

RecordExpired(rec, t) ==
  \/ t - rec.timestamp > FAILED_REQUEST_EXPIRY
  \/ rec.retryAfter # <<>> /\ t > rec.retryAfter[1]

hasRecentlyFailed(f, url, t) ==
  /\ f[url] # NoRecord
  /\ ~RecordExpired(f[url], t)

\* A lookup that stamps a live record with the time of the lookup.
PurgeOnLookupRefresh(f, url, t) ==
  IF f[url] = NoRecord THEN f
  ELSE IF RecordExpired(f[url], t)
    THEN [f EXCEPT ![url] = NoRecord]
    ELSE [f EXCEPT ![url].timestamp = t]

PurgeOnLookup(f, url, t) ==
  IF f[url] # NoRecord /\ RecordExpired(f[url], t)
    THEN [f EXCEPT ![url] = NoRecord]
    ELSE f

\* A recordFailedRequest that drops the retry-after argument.
recordFailedRequestNoDeadline(f, url, errorCode, retryAfter, t, attempt) ==
  [f EXCEPT ![url] = [timestamp |-> t, errorCode |-> errorCode,
                      retryAfter |-> <<>>, attempt |-> attempt]]

(***************************************************************************)
(* recordFailedRequest: insert the record, then drop every record older    *)
(* than FAILED_REQUEST_EXPIRY.  The argument retryAfter is 0 when the      *)
(* caller passes none; the field attempt (history) is the retryCount of    *)
(* the writing request.                                                    *)
(***************************************************************************)
recordFailedRequest(f, url, errorCode, retryAfter, t, attempt) ==
  LET g == [f EXCEPT ![url] =
              [timestamp |-> t, errorCode |-> errorCode,
               retryAfter |-> IF retryAfter # 0 THEN <<t + retryAfter>>
                                                ELSE <<>>,
               attempt |-> attempt]]
  IN [u \in Urls |->
        IF g[u] # NoRecord /\ t - g[u].timestamp > FAILED_REQUEST_EXPIRY
          THEN NoRecord ELSE g[u]]

\* makeApiRequest, the 429 branch: the delay before the retry.
BackoffDelay(retryCount) == RETRY_DELAY * Pow2(retryCount)

\* A retry budget that is one too large.
MayRetryOnceMore(status, retryCount) ==
  status = 429 /\ retryCount <= MAX_RETRIES

\* makeApiRequest, the 429 branch: is there retry budget left?
MayRetry(status, retryCount) == status = 429 /\ retryCount < MAX_RETRIES

(***************************************************************************)
(* The mutable gateway state threaded through one macrotask.  fire is      *)
(* history: the start of the last network call and the separation of the   *)
(* last two, both cut off at MIN_API_CALL_INTERVAL.                        *)
(***************************************************************************)
Gw == [last |-> lastApiCallTime, queue |-> requestQueue,
       flag |-> isProcessingQueue, failed |-> failedRequests,
       reqs |-> reqs, workers |-> workers, fire |-> fire]

\* A request: url and retryCount are the arguments of makeApiRequest; st is
\* where its promise chain stands; wake is the deadline of its timer and
\* firedAt the start time of its call in flight.  History: respAt is the
\* time of the 429 response it is retrying after, waited the time from that
\* response to the call in flight, calls the number of its network calls.
NewReq(url, st) ==
  [url |-> url, retryCount |-> 0, st |-> st, wake |-> 0, firedAt |-> 0,
   respAt |-> 0, waited |-> 0, calls |-> 0]

NoWorker == [cur |-> 0, st |-> "none", wake |-> 0]

\* xhr.send: the network call fires.
Send(G, r, t) ==
  [G EXCEPT !.reqs[r].st = "inflight", !.reqs[r].firedAt = t,
            !.reqs[r].wake = 0,
            !.reqs[r].waited = IF G.reqs[r].retryCount > 0
                                 THEN t - G.reqs[r].respAt ELSE 0,
            !.reqs[r].respAt = 0,
            !.reqs[r].calls = @ + 1,
            !.fire = [last |-> t,
                      gap |-> Min(t - G.fire.last, MIN_API_CALL_INTERVAL)]]

\* executeRequest: await rateLimit(), then send.
executeRequest(G, r, t) ==
  LET d == RateLimitDelay(t, G.last) IN
  IF d > 0
    THEN [G EXCEPT !.reqs[r].st = "throttle", !.reqs[r].wake = t + d]
    ELSE Send([G EXCEPT !.last = t], r, t)

\* A loop that takes the newest request (pop instead of shift).
DrainNewestFirst(G, w, t) ==
  IF Len(G.queue) > 0
    THEN LET r == G.queue[Len(G.queue)]
             H == [G EXCEPT !.queue = SubSeq(@, 1, Len(@) - 1),
                            !.workers = (@ \ {w}) \cup
                               {[cur |-> r, st |-> "request", wake |-> 0]}]
         IN executeRequest(H, r, t)
    ELSE [G EXCEPT !.flag = FALSE, !.workers = @ \ {w}]

\* processQueue, the head of the while loop, run by worker w.
Drain(G, w, t) ==
  IF Len(G.queue) > 0
    THEN LET r == Head(G.queue)
             H == [G EXCEPT !.queue = Tail(@),
                            !.workers = (@ \ {w}) \cup
                               {[cur |-> r, st |-> "request", wake |-> 0]}]
         IN executeRequest(H, r, t)
    ELSE [G EXCEPT !.flag = FALSE, !.workers = @ \ {w}]

\* A worker that returns after its rateLimit when it did not have to
\* sleep, without looking at the queue or clearing the flag.
AfterRequestNoLoop(G, w, t) ==
  LET d == RateLimitDelay(t, G.last) IN
  IF d > 0
    THEN [G EXCEPT !.workers = (@ \ {w}) \cup
                     {[cur |-> w.cur, st |-> "throttle", wake |-> t + d]}]
    ELSE [G EXCEPT !.last = t, !.workers = @ \ {w}]

\* processQueue after `await request()`: await rateLimit(), then loop.
AfterRequest(G, w, t) ==
  LET d == RateLimitDelay(t, G.last) IN
  IF d > 0
    THEN [G EXCEPT !.workers = (@ \ {w}) \cup
                     {[cur |-> w.cur, st |-> "throttle", wake |-> t + d]}]
    ELSE Drain([G EXCEPT !.last = t], w, t)

\* A guard that forgets isProcessingQueue.
ProcessQueueGuardNoFlag(G) == Len(G.queue) = 0

\* processQueue, its first line: return at once?
ProcessQueueGuard(G) == G.flag \/ Len(G.queue) = 0

processQueue(G, t) ==
  IF ProcessQueueGuard(G)
    THEN G
    ELSE Drain([G EXCEPT !.flag = TRUE], NoWorker, t)

\* queueRequest: push the wrapped request, call processQueue.
queueRequest(G, r, t) ==
  processQueue([G EXCEPT !.queue = Append(@, r)], t)

\* The promise of request r settles; the worker awaiting it goes on.
Settle(G, r, outcome, t) ==
  LET H == [G EXCEPT !.reqs[r].st = outcome, !.reqs[r].wake = 0,
                     !.reqs[r].firedAt = 0, !.reqs[r].respAt = 0,
                     !.reqs[r].waited = 0]
      ws == {w \in H.workers : w.cur = r /\ w.st = "request"}
  IN IF ws = {} THEN H
     ELSE AfterRequest(H, CHOOSE w \in ws : TRUE, t)

Commit(G) ==
  /\ lastApiCallTime' = G.last
  /\ requestQueue' = G.queue
  /\ isProcessingQueue' = G.flag
  /\ failedRequests' = G.failed
  /\ reqs' = G.reqs
  /\ workers' = G.workers
  /\ fire' = G.fire

(***************************************************************************)
(* makeApiRequest(url) called by some caller (retryCount = 0).             *)
(***************************************************************************)
Call(url) ==
  /\ Len(reqs) < MaxReq
  /\ LET r == Len(reqs) + 1
         G0 == [Gw EXCEPT !.failed = PurgeOnLookup(@, url, now)]
     IN IF hasRecentlyFailed(failedRequests, url, now)
          THEN Commit([G0 EXCEPT !.reqs = Append(@, NewReq(url, "skipped"))])
          ELSE Commit(queueRequest(
                 [G0 EXCEPT !.reqs = Append(@, NewReq(url, "queued"))],
                 r, now))
  /\ idle' = 0
  /\ UNCHANGED <<jumps, gtVars, cfVars, fuVars, soVars, auxVars>>

\* The timer of rateLimit inside executeRequest fires.
ThrottleWake(r) ==
  /\ reqs[r].st = "throttle"
  /\ now >= reqs[r].wake
  /\ Commit(Send([Gw EXCEPT !.last = now], r, now))
  /\ idle' = 0
  /\ UNCHANGED <<jumps, gtVars, cfVars, fuVars, soVars, auxVars>>

\* A handler whose 429 branch lets the queue worker go on while the retry
\* is still to come.
RespondReleasesWorker(r, status, body) ==
  /\ reqs[r].st = "inflight"
  /\ IF status >= 200 /\ status < 300
       THEN IF body = "json"
              THEN Commit(Settle(Gw, r, "resolved", now))
              ELSE Commit(Settle(Gw, r, "parseError", now))
       ELSE IF MayRetry(status, reqs[r].retryCount)
         THEN LET G == [Gw EXCEPT
                          !.reqs[r].st = "backoff",
                          !.reqs[r].firedAt = 0,
                          !.reqs[r].waited = 0,
                          !.reqs[r].respAt = now,
                          !.reqs[r].wake =
                             now + BackoffDelay(reqs[r].retryCount)]
                  ws == {w \in workers : w.cur = r /\ w.st = "request"}
              IN IF ws = {} THEN Commit(G)
                 ELSE Commit(AfterRequest(G, CHOOSE w \in ws : TRUE, now))
         ELSE Commit(Settle(
                [Gw EXCEPT !.failed =
                   recordFailedRequest(@, reqs[r].url, status,
                      IF status = 429 THEN RETRY_AFTER_429 ELSE 0,
                      now, reqs[r].retryCount)],
                r, "apiError", now))
  /\ idle' = 0
  /\ UNCHANGED <<jumps, gtVars, cfVars, fuVars, soVars, auxVars>>

\* The readystatechange handler of the request in flight.
Respond(r, status, body) ==
  /\ reqs[r].st = "inflight"
  /\ IF status >= 200 /\ status < 300
       THEN IF body = "json"
              THEN Commit(Settle(Gw, r, "resolved", now))
              ELSE Commit(Settle(Gw, r, "parseError", now))
       ELSE IF MayRetry(status, reqs[r].retryCount)
         THEN Commit([Gw EXCEPT
                !.reqs[r].st = "backoff",
                !.reqs[r].firedAt = 0,
                !.reqs[r].waited = 0,
                !.reqs[r].respAt = now,
                !.reqs[r].wake = now + BackoffDelay(reqs[r].retryCount)])
         ELSE Commit(Settle(
                [Gw EXCEPT !.failed =
                   recordFailedRequest(@, reqs[r].url, status,
                      IF status = 429 THEN RETRY_AFTER_429 ELSE 0,
                      now, reqs[r].retryCount)],
                r, "apiError", now))
  /\ idle' = 0
  /\ UNCHANGED <<jumps, gtVars, cfVars, fuVars, soVars, auxVars>>

\* The backoff timer fires: makeApiRequest(url, retryCount + 1).
BackoffWake(r) ==
  /\ reqs[r].st = "backoff"
  /\ now >= reqs[r].wake
  /\ LET url == reqs[r].url
         G0 == [Gw EXCEPT !.failed = PurgeOnLookup(@, url, now),
                          !.reqs[r].retryCount = @ + 1]
     IN IF hasRecentlyFailed(failedRequests, url, now)
          THEN Commit(Settle(G0, r, "skippedRetry", now))
          ELSE Commit(executeRequest(G0, r, now))
  /\ idle' = 0
  /\ UNCHANGED <<jumps, gtVars, cfVars, fuVars, soVars, auxVars>>

\* The timer of the worker's rateLimit after a request fires.
WorkerWake(w) ==
  /\ w \in workers
  /\ w.st = "throttle"
  /\ now >= w.wake
  /\ Commit(Drain([Gw EXCEPT !.last = now], w, now))
  /\ idle' = 0
  /\ UNCHANGED <<jumps, gtVars, cfVars, fuVars, soVars, auxVars>>

(***************************************************************************)
(* The clock.  A timer that is due fires before time goes on; a response   *)
(* arrives within MaxLatency; long jumps are taken when nothing is pending *)
(* and the failure cache holds a record.                                   *)
(***************************************************************************)
Pending ==
  \/ workers # {}
  \/ \E r \in 1..Len(reqs) :
       reqs[r].st \in {"queued", "throttle", "inflight", "backoff"}

TimerDue ==
  \/ \E r \in 1..Len(reqs) :
       reqs[r].st \in {"throttle", "backoff"} /\ now >= reqs[r].wake
  \/ \E w \in workers : w.st = "throttle" /\ now >= w.wake

AgeRecord(rec, d) ==
  IF rec = NoRecord THEN rec
  ELSE [rec EXCEPT
          !.timestamp = Max(@ - d, 0 - (FAILED_REQUEST_EXPIRY + Quantum)),
          !.retryAfter = IF @ = <<>> THEN @ ELSE <<Max(@[1] - d, 0 - Quantum)>>]

AgeReq(q, d) ==
  [q EXCEPT !.wake = IF q.st \in {"throttle", "backoff"} THEN @ - d ELSE @,
            !.respAt = IF q.st \in {"throttle", "backoff"} /\ q.retryCount + q.calls > 0
                         THEN @ - d ELSE @,
            !.firedAt = IF q.st = "inflight" THEN @ - d ELSE @]

AgeWorker(w, d) ==
  [w EXCEPT !.wake = IF w.st = "throttle" THEN @ - d ELSE @]

Elapse(d) ==
  /\ lastApiCallTime' = Max(lastApiCallTime - d, 0 - MIN_API_CALL_INTERVAL)
  /\ failedRequests' = [u \in Urls |-> AgeRecord(failedRequests[u], d)]
  /\ reqs' = [r \in 1..Len(reqs) |-> AgeReq(reqs[r], d)]
  /\ workers' = {AgeWorker(w, d) : w \in workers}
  /\ fire' = [fire EXCEPT !.last = Max(@ - d, 0 - MIN_API_CALL_INTERVAL)]
  /\ UNCHANGED <<requestQueue, isProcessingQueue, gtVars, cfVars, fuVars, soVars, auxVars>>

Tick ==
  /\ ~TimerDue
  /\ \A r \in 1..Len(reqs) :
       reqs[r].st = "inflight" => Quantum - reqs[r].firedAt <= MaxLatency
  /\ Pending \/ idle < MaxIdle
  /\ Elapse(Quantum)
  /\ idle' = IF Pending THEN 0 ELSE idle + 1
  /\ UNCHANGED jumps

Jump(d) ==
  /\ ~Pending
  /\ \E u \in Urls : failedRequests[u] # NoRecord
  /\ jumps < MaxJumps
  /\ Elapse(d)
  /\ jumps' = jumps + 1
  /\ idle' = 0

Init ==
  /\ lastApiCallTime = 0 - MIN_API_CALL_INTERVAL
  /\ requestQueue = <<>>
  /\ isProcessingQueue = FALSE
  /\ failedRequests = [u \in Urls |-> NoRecord]
  /\ reqs = <<>>
  /\ workers = {}
  /\ fire = [last |-> 0 - MIN_API_CALL_INTERVAL, gap |-> MIN_API_CALL_INTERVAL]
  /\ idle = 0
  /\ jumps = 0
  /\ tweets = <<>>
  /\ grouped = <<>>
  /\ gpc = "off"
  /\ regrouped = <<>>
  /\ config = DefaultConfig
  /\ rejected = 0
  /\ userTweets = <<>>
  /\ fu = NoFetch
  /\ ordered = <<>>
  /\ normalized = <<>>
  /\ runs = <<>>

Next ==
  \/ \E u \in Urls : Call(u)
  \/ \E r \in 1..Len(reqs) : ThrottleWake(r)
  \/ \E r \in 1..Len(reqs), s \in Statuses, b \in Bodies : Respond(r, s, b)
  \/ \E r \in 1..Len(reqs) : BackoffWake(r)
  \/ \E w \in workers : WorkerWake(w)
  \/ Tick
  \/ \E d \in Steps : Jump(d)

Spec == Init /\ [][Next]_vars

\* The gateway while requests are pending: the event loop runs a timer
\* that is due, every network call completes, and time goes on.  The long
\* jumps of the clock, taken only when nothing is pending, are left out.
Timers ==
  \/ \E r \in 1..Len(reqs) : ThrottleWake(r)
  \/ \E r \in 1..Len(reqs) : BackoffWake(r)
  \/ \E w \in workers : WorkerWake(w)

Network == \E r \in 1..Len(reqs), s \in Statuses, b \in Bodies : Respond(r, s, b)

NextLive ==
  \/ \E u \in Urls : Call(u)
  \/ Timers
  \/ Network
  \/ Tick

SpecLive ==
  /\ Init /\ [][NextLive]_vars
  /\ WF_vars(Timers) /\ WF_vars(Network) /\ WF_vars(Tick)

TypeOK ==
  /\ isProcessingQueue \in BOOLEAN

(***************************************************************************)
(* The thread grouping engine: groupThreads (api.ts lines 587-840).        *)
(*                                                                         *)
(* A tweet of the input array is an object; the model names it by its      *)
(* index in the array.  Ids and conversation/thread keys are numbers       *)
(* (a conversation id is the id of a tweet), None stands for undefined.    *)
(* thread_position and thread_index are kept outside the tweet records,    *)
(* in pos and idx, because groupThreads writes them in place and a tweet   *)
(* object may sit in more than one array.  demoted (history) holds the     *)
(* tweets of the groups that ended with a single member, walks (history)   *)
(* the members, the thread and the calls of every walk from a root.        *)
(***************************************************************************)
StandaloneKey == -1
\* user ids
Authors == {11, 12}

\* processTweet: the fields groupThreads reads, from a raw API record.
processTweet(raw) ==
  LET conversation_id ==
        IF raw.conversation_id # None THEN raw.conversation_id
        ELSE IF raw.in_reply_to_status_id # None THEN raw.in_reply_to_status_id
        ELSE raw.tweet_id
  IN [id |-> raw.tweet_id,
      created_at |-> raw.creation_date,
      author |-> raw.user_id,
      conversation_id |-> conversation_id,
      in_reply_to_user_id |-> raw.in_reply_to_user_id,
      in_reply_to_tweet_id |-> raw.in_reply_to_status_id,
      thread_id |-> IF raw.thread_id # None THEN raw.thread_id
                    ELSE conversation_id,
      is_self_thread |-> /\ raw.in_reply_to_user_id # None
                         /\ raw.user_id # None
                         /\ raw.in_reply_to_user_id = raw.user_id]

\* tweetMap: a later tweet with the same id replaces an earlier one.
TweetMapHas(T, id) == \E i \in 1..Len(T) : T[i].id = id
TweetMapGet(T, id) ==
  CHOOSE i \in 1..Len(T) :
    T[i].id = id /\ \A j \in 1..Len(T) : T[j].id = id => j <= i

\* A JavaScript Map as the sequence of its entries in insertion order.
MapHas(m, k) == \E e \in 1..Len(m) : m[e].key = k
MapIndex(m, k) == CHOOSE e \in 1..Len(m) : m[e].key = k
MapGet(m, k) == m[MapIndex(m, k)].val
MapSet(m, k, v) ==
  IF MapHas(m, k)
    THEN [m EXCEPT ![MapIndex(m, k)].val = v]
    ELSE Append(m, [key |-> k, val |-> v])

\* Set.add on a Set kept as the sequence of its members in insertion order.
SetAdd(q, x) == IF \E e \in 1..Len(q) : q[e] = x THEN q ELSE Append(q, x)

Range(q) == {q[e] : e \in 1..Len(q)}

\* selfThreads.get(key).add(id), creating the set when the key is new.
AddSelf(m, k, id) ==
  IF MapHas(m, k) THEN MapSet(m, k, SetAdd(MapGet(m, k), id))
                  ELSE MapSet(m, k, <<id>>)

\* Lines 602-627, the body of the forEach for tweet t.
CollectSelf(T, m, t) ==
  IF t.is_self_thread /\ t.conversation_id # None
    THEN LET m1 == AddSelf(m, t.conversation_id, t.id)
         IN IF t.in_reply_to_tweet_id # None
               /\ TweetMapHas(T, t.in_reply_to_tweet_id)
              THEN AddSelf(m1, t.conversation_id, t.in_reply_to_tweet_id)
              ELSE m1
  ELSE IF t.in_reply_to_tweet_id # None /\ t.in_reply_to_user_id # None
    THEN IF TweetMapHas(T, t.in_reply_to_tweet_id)
            /\ T[TweetMapGet(T, t.in_reply_to_tweet_id)].author = t.author
           THEN LET threadId ==
                      IF t.conversation_id # None THEN t.conversation_id
                      ELSE IF t.thread_id # None THEN t.thread_id
                      ELSE t.in_reply_to_tweet_id
                IN AddSelf(AddSelf(m, threadId, t.id),
                           threadId, t.in_reply_to_tweet_id)
           ELSE m
    ELSE m

RECURSIVE SelfThreads(_, _, _)
SelfThreads(T, m, i) ==
  IF i > Len(T) THEN m
  ELSE SelfThreads(T, CollectSelf(T, m, T[i]), i + 1)

\* Array.prototype.sort: stable; cmp[<<a, b>>] > 0 puts a after b.  The
\* comparator is handed over as the table of its values.  Written as
\* insertion sort, which every stable sort agrees with when cmp is a
\* consistent order.
RECURSIVE InsertSorted(_, _, _, _)
InsertSorted(q, x, k, cmp) ==
  IF k >= 1 /\ cmp[<<q[k], x>>] > 0
    THEN InsertSorted(q, x, k - 1, cmp)
    ELSE SubSeq(q, 1, k) \o <<x>> \o SubSeq(q, k + 1, Len(q))

RECURSIVE SortFrom(_, _, _, _)
SortFrom(done, q, k, cmp) ==
  IF k > Len(q) THEN done
  ELSE SortFrom(InsertSorted(done, q[k], Len(done), cmp), q, k + 1, cmp)

Sort(q, cmp) == SortFrom(<<>>, q, 1, cmp)

Table(q, Cmp(_, _)) == [p \in Range(q) \X Range(q) |-> Cmp(p[1], p[2])]

\* new Date(a.created_at).getTime() - new Date(b.created_at).getTime()
CmpDate(T, a, b) == DateDiff(T[a].created_at, T[b].created_at)

\* The comparator of lines 640-656.
CmpSelf(T, S, a, b) ==
  IF S.pos[a] # None - 1 /\ S.pos[b] # None - 1 THEN S.pos[a] - S.pos[b]
  ELSE IF S.idx[a] # None - 1 /\ S.idx[b] # None - 1 THEN S.idx[a] - S.idx[b]
  ELSE CmpDate(T, a, b)

\* A test that lets a single tweet pass.
IsThreadLoose(q) == Len(q) > 0

\* "more than one tweet": the test of lines 631, 659, 785 and 821.
IsThread(q) == Len(q) > 1

\* thread.forEach((t, i) => { t.thread_position = i; t.thread_index = i })
SetPositions(S, q) ==
  [S EXCEPT
     !.pos = [o \in DOMAIN S.pos |->
                IF \E e \in 1..Len(q) : q[e] = o
                  THEN (CHOOSE e \in 1..Len(q) :
                          q[e] = o /\ \A f \in 1..Len(q) : q[f] = o => f <= e) - 1
                  ELSE S.pos[o]],
     !.idx = [o \in DOMAIN S.idx |->
                IF \E e \in 1..Len(q) : q[e] = o
                  THEN (CHOOSE e \in 1..Len(q) :
                          q[e] = o /\ \A f \in 1..Len(q) : q[f] = o => f <= e) - 1
                  ELSE S.idx[o]]]

\* Lines 630-670, the body of the forEach for one entry of selfThreads.
ProcessSelf(T, S, entry) ==
  IF IsThread(entry.val)
    THEN LET objs == [e \in 1..Len(entry.val) |-> TweetMapGet(T, entry.val[e])]
             threadTweets == Sort(objs, Table(objs, LAMBDA a, b : CmpSelf(T, S, a, b)))
         IN IF IsThread(threadTweets)
              THEN LET S1 == SetPositions(S, threadTweets)
                   IN [S1 EXCEPT
                         !.processed = @ \cup {T[o].id : o \in Range(threadTweets)},
                         !.threadMap = MapSet(@, entry.key, threadTweets)]
              ELSE S
    ELSE S

RECURSIVE SelfPass(_, _, _, _)
SelfPass(T, S, m, e) ==
  IF e > Len(m) THEN S
  ELSE SelfPass(T, ProcessSelf(T, S, m[e]), m, e + 1)

\* A push that numbers the standalone tweet as if it were a thread of one.
PushStandaloneIndexed(S, o) ==
  [S EXCEPT !.pos[o] = 0, !.idx[o] = 0,
            !.threadMap =
     IF MapHas(@, StandaloneKey)
       THEN MapSet(@, StandaloneKey, Append(MapGet(@, StandaloneKey), o))
       ELSE MapSet(@, StandaloneKey, <<o>>)]

\* threadMap.get('standalone').push(o), creating the array when missing.
PushStandalone(S, o) ==
  [S EXCEPT !.threadMap =
     IF MapHas(@, StandaloneKey)
       THEN MapSet(@, StandaloneKey, Append(MapGet(@, StandaloneKey), o))
       ELSE MapSet(@, StandaloneKey, <<o>>)]

\* findReplies (lines 743-766): the replies collected under tweet id,
\* processedIds afterwards and (history) the number of calls of findReplies
\* it took, this one included.
MaxDepth == 10

RECURSIVE findReplies(_, _, _, _, _)
RECURSIVE WalkReplies(_, _, _, _, _, _, _)
RECURSIVE WalkRepliesUnguarded(_, _, _, _, _, _, _)
findReplies(T, replyMap, processed, id, depth) ==
  IF depth > MaxDepth
    THEN [list |-> <<>>, processed |-> processed, calls |-> 1]
  ELSE IF ~MapHas(replyMap, id)
    THEN [list |-> <<>>, processed |-> processed, calls |-> 1]
  ELSE LET replies == Sort(MapGet(replyMap, id),
                           Table(MapGet(replyMap, id),
                                 LAMBDA a, b : CmpDate(T, a, b)))
           loop == WalkReplies(T, replyMap, processed, replies, 1, depth, <<>>)
       IN [loop EXCEPT !.calls = @ + 1]

\* The for loop without the test of processedIds.
WalkRepliesUnguarded(T, replyMap, processed, replies, k, depth, acc) ==
  IF k > Len(replies)
    THEN [list |-> acc, processed |-> processed, calls |-> 0]
  ELSE LET reply == replies[k]
           sub == findReplies(T, replyMap, processed \cup {T[reply].id},
                              T[reply].id, depth + 1)
           rest == WalkRepliesUnguarded(T, replyMap, sub.processed, replies,
                                        k + 1, depth,
                                        Append(acc, reply) \o sub.list)
       IN [rest EXCEPT !.calls = @ + sub.calls]

\* The for loop of lines 755-762 from the k-th reply on.
WalkReplies(T, replyMap, processed, replies, k, depth, acc) ==
  IF k > Len(replies)
    THEN [list |-> acc, processed |-> processed, calls |-> 0]
  ELSE LET reply == replies[k] IN
       IF T[reply].id \notin processed
         THEN LET sub == findReplies(T, replyMap,
                                     processed \cup {T[reply].id},
                                     T[reply].id, depth + 1)
                  rest == WalkReplies(T, replyMap, sub.processed, replies,
                                      k + 1, depth,
                                      Append(acc, reply) \o sub.list)
              IN [rest EXCEPT !.calls = @ + sub.calls]
         ELSE WalkReplies(T, replyMap, processed, replies, k + 1, depth, acc)

\* replyMap of lines 699-709 for the members (objects, in array order).
RECURSIVE BuildReplyMap(_, _, _, _)
BuildReplyMap(T, members, k, m) ==
  IF k > Len(members) THEN m
  ELSE LET t == T[members[k]] IN
       BuildReplyMap(T, members, k + 1,
         IF t.in_reply_to_tweet_id # None
           THEN IF MapHas(m, t.in_reply_to_tweet_id)
                  THEN MapSet(m, t.in_reply_to_tweet_id,
                              Append(MapGet(m, t.in_reply_to_tweet_id), members[k]))
                  ELSE MapSet(m, t.in_reply_to_tweet_id, <<members[k]>>)
           ELSE m)

\* Lines 673-800, the body of the forEach for the tweet object cur.
Residual(T, S, cur) ==
  LET tweet == T[cur] IN
  IF tweet.id \in S.processed THEN S
  ELSE
    LET threadId == IF tweet.conversation_id # None THEN tweet.conversation_id
                    ELSE IF tweet.thread_id # None THEN tweet.thread_id
                    ELSE tweet.id
        IsMember(o) ==
          /\ T[o].id \notin S.processed
          /\ \/ T[o].conversation_id # None /\ T[o].conversation_id = threadId
             \/ T[o].thread_id # None /\ T[o].thread_id = threadId
             \/ /\ T[o].in_reply_to_tweet_id # None
                /\ TweetMapHas(T, T[o].in_reply_to_tweet_id)
                /\ T[o].author = tweet.author
        threadMembers == SelectSeq([o \in 1..Len(T) |-> o], IsMember)
    IN
    IF Len(threadMembers) <= 1
      THEN PushStandalone([S EXCEPT !.processed = @ \cup {tweet.id}], cur)
      ELSE
        LET replyMap == BuildReplyMap(T, threadMembers, 1, <<>>)
            IsRoot(o) ==
              \/ T[o].in_reply_to_tweet_id = None
              \/ ~\E e \in 1..Len(threadMembers) :
                    T[threadMembers[e]].id = T[o].in_reply_to_tweet_id
            roots == SelectSeq(threadMembers, IsRoot)
            rootTweet == IF Len(roots) > 0 THEN roots[1]
                         ELSE Sort(threadMembers,
                                   Table(threadMembers,
                                         LAMBDA a, b : CmpDate(T, a, b)))[1]
            walk == findReplies(T, replyMap, S.processed \cup {T[rootTweet].id},
                                T[rootTweet].id, 0)
            thread == <<rootTweet>> \o walk.list
            S1 == [S EXCEPT !.processed = walk.processed,
                            !.walks = Append(@, [members |-> threadMembers,
                                                 thread |-> thread,
                                                 calls |-> walk.calls])]
        IN IF IsThread(thread)
             THEN [SetPositions(S1, thread) EXCEPT
                     !.threadMap = MapSet(@, threadId, thread)]
             ELSE PushStandalone([S1 EXCEPT !.demoted = @ \cup {thread[1]}],
                                 thread[1])

RECURSIVE ResidualPass(_, _, _)
ResidualPass(T, S, i) ==
  IF i > Len(T) THEN S
  ELSE IF T[i].id \in S.processed THEN ResidualPass(T, S, i + 1)
  ELSE ResidualPass(T, Residual(T, S, i), i + 1)

\* Lines 803-811.
RECURSIVE Leftover(_, _, _)
Leftover(T, S, i) ==
  IF i > Len(T) THEN S
  ELSE IF T[i].id \notin S.processed
    THEN Leftover(T, PushStandalone([S EXCEPT !.processed = @ \cup {T[i].id}], i),
                  i + 1)
  ELSE Leftover(T, S, i + 1)

\* Lines 814-830: the result array before the final sort.  An element is a
\* Thread (kind "thread", its id, its tweets) or a tweet (kind "tweet").
RECURSIVE BuildResult(_, _, _)
BuildResult(m, e, acc) ==
  IF e > Len(m) THEN acc
  ELSE BuildResult(m, e + 1,
         IF m[e].key = StandaloneKey
           THEN acc \o [k \in 1..Len(m[e].val) |->
                          [kind |-> "tweet", id |-> StandaloneKey,
                           tweets |-> <<m[e].val[k]>>]]
           ELSE IF IsThread(m[e].val)
             THEN Append(acc, [kind |-> "thread", id |-> m[e].key,
                               tweets |-> m[e].val])
             ELSE acc)

\* Lines 835-839: newest first by the date of the first tweet.
CmpNewest(T, a, b) ==
  DateDiff(T[b.tweets[1]].created_at, T[a.tweets[1]].created_at)

groupThreads(T, pos0, idx0) ==
  LET S0 == [pos |-> pos0, idx |-> idx0, processed |-> {}, threadMap |-> <<>>,
             demoted |-> {}, walks |-> <<>>]
      S1 == SelfPass(T, S0, SelfThreads(T, <<>>, 1), 1)
      S2 == ResidualPass(T, S1, 1)
      S3 == Leftover(T, S2, 1)
      result == BuildResult(S3.threadMap, 1, <<>>)
  IN [items |-> Sort(result, Table(result, LAMBDA a, b : CmpNewest(T, a, b))),
      pos |-> S3.pos, idx |-> S3.idx, demoted |-> S3.demoted,
      walks |-> S3.walks]

(***************************************************************************)
(* The inputs of groupThreads: arrays of up to MaxTweets tweets as         *)
(* processTweet makes them, with distinct ids.  Tweet i has id i; the      *)
(* array is in creation order, oldest first or (as the API returns it)     *)
(* newest first.  The first tweet is by user 11; only a reply names the    *)
(* user it replies to; a reply is younger than its target, which is a      *)
(* tweet of the array or a tweet that was not fetched (AbsentId).          *)
(***************************************************************************)
MaxTweets == 4

AbsentId == MaxTweets + 1

RawTweets(i, oldestFirst) ==
  {[tweet_id |-> i,
    creation_date |-> IF oldestFirst THEN i ELSE MaxTweets + 1 - i,
    user_id |-> a, conversation_id |-> c, thread_id |-> None,
    in_reply_to_status_id |-> r[1], in_reply_to_user_id |-> r[2]] :
     a \in IF i = 1 THEN {11} ELSE Authors, c \in {None, 1},
     r \in {<<None, None>>} \cup
           (((IF oldestFirst THEN 1..(i - 1) ELSE (i + 1)..MaxTweets)
              \cup {AbsentId}) \X {None, 11})}

Unset(n) == [o \in 1..n |-> None - 1]

InitGT ==
  /\ lastApiCallTime = 0 - MIN_API_CALL_INTERVAL
  /\ requestQueue = <<>>
  /\ isProcessingQueue = FALSE
  /\ failedRequests = [u \in Urls |-> NoRecord]
  /\ reqs = <<>>
  /\ workers = {}
  /\ fire = [last |-> 0 - MIN_API_CALL_INTERVAL, gap |-> MIN_API_CALL_INTERVAL]
  /\ idle = 0
  /\ jumps = 0
  /\ tweets = <<>>
  /\ grouped = [items |-> <<>>, pos |-> <<>>, idx |-> <<>>, demoted |-> {},
               walks |-> <<>>]
  /\ gpc = "input"
  /\ regrouped = [items |-> <<>>, pos |-> <<>>, idx |-> <<>>, demoted |-> {},
                  walks |-> <<>>,
                  flat |-> <<>>]
  /\ config = DefaultConfig
  /\ rejected = 0
  /\ userTweets = <<>>
  /\ fu = NoFetch
  /\ ordered = <<>>
  /\ normalized = <<>>
  /\ runs = <<>>

\* The caller puts one more processed tweet into the array.
AddTweet ==
  /\ gpc = "input"
  /\ Len(tweets) < MaxTweets
  /\ \E oldestFirst \in IF Len(tweets) = 0 THEN BOOLEAN
                         ELSE {tweets[1].created_at = 1} :
       \E raw \in RawTweets(Len(tweets) + 1, oldestFirst) :
         tweets' = Append(tweets, processTweet(raw))
  /\ UNCHANGED <<gwVars, grouped, gpc, regrouped, cfVars, fuVars, soVars, auxVars>>

\* groupThreads(tweets) is called.
Group ==
  /\ gpc = "input"
  /\ Len(tweets) >= 1
  /\ grouped' = groupThreads(tweets, Unset(Len(tweets)), Unset(Len(tweets)))
  /\ gpc' = "done"
  /\ UNCHANGED <<gwVars, tweets, regrouped, cfVars, fuVars, soVars, auxVars>>

\* items.flatMap(item => 'tweets' in item ? item.tweets : [item])
RECURSIVE Flatten(_, _, _)
Flatten(items, e, acc) ==
  IF e > Len(items) THEN acc
  ELSE Flatten(items, e + 1, acc \o items[e].tweets)

\* The displayed items are flattened and grouped again (handleFetchMore,
\* with nothing new to add).  The tweet objects keep the thread_position
\* and thread_index the first grouping gave them; flat names, for every
\* place of the new array, the object of the old one.
Regroup ==
  /\ gpc = "done"
  /\ LET flat == Flatten(grouped.items, 1, <<>>)
         T == [k \in 1..Len(flat) |-> tweets[flat[k]]]
         pos0 == [k \in 1..Len(flat) |-> grouped.pos[flat[k]]]
         idx0 == [k \in 1..Len(flat) |-> grouped.idx[flat[k]]]
     IN regrouped' = groupThreads(T, pos0, idx0) @@ [flat |-> flat]
  /\ gpc' = "again"
  /\ UNCHANGED <<gwVars, tweets, grouped, cfVars, fuVars, soVars, auxVars>>

NextGT == AddTweet \/ Group \/ Regroup

SpecGT == InitGT /\ [][NextGT]_vars

(***************************************************************************)
(* groupThreads on arrays whose reply links are arbitrary: a tweet may     *)
(* reply to itself, to a younger tweet or around a cycle, two tweets may   *)
(* carry the same id, and a chain of replies may be longer than the depth  *)
(* findReplies goes to.  Every tweet is by user 11 in conversation 1 and   *)
(* none names the user it replies to, so that the self-thread pass leaves  *)
(* them all to the walk from a root.                                       *)
(***************************************************************************)
\* the longest array with arbitrary links and ids
MaxLinked == 3
\* the longest chain of replies
MaxChain == 13

\* The raw records an array of n may hold; the creation date is set when
\* the record is put in its place.
LinkedRaws(n) ==
  {[tweet_id |-> i, creation_date |-> 1, user_id |-> 11,
    conversation_id |-> 1, thread_id |-> None,
    in_reply_to_status_id |-> r, in_reply_to_user_id |-> None] :
     i \in 1..n, r \in {None} \cup (1..n)}

\* Tweet k replies to tweet k - 1 and the oldest tweet to `closing`; the
\* array is oldest first or newest first.
ChainRaw(n, k, closing) ==
  [tweet_id |-> k, creation_date |-> k, user_id |-> 11,
   conversation_id |-> 1, thread_id |-> None,
   in_reply_to_status_id |-> IF k = 1 THEN closing ELSE k - 1,
   in_reply_to_user_id |-> None]

\* The caller hands over an array with arbitrary links.
Linked ==
  /\ gpc = "input"
  /\ tweets = <<>>
  /\ \E n \in 1..MaxLinked :
       \E raws \in [1..n -> LinkedRaws(n)] :
         tweets' = [k \in 1..n |->
                      processTweet([raws[k] EXCEPT !.creation_date = k])]
  /\ UNCHANGED <<gwVars, grouped, gpc, regrouped, cfVars, fuVars, soVars, auxVars>>

\* The caller hands over a chain of replies, open or closed to a cycle.
Chain ==
  /\ gpc = "input"
  /\ tweets = <<>>
  /\ \E n \in (MaxDepth + 1)..MaxChain :
       \E closing \in {None} \cup (1..n), oldestFirst \in BOOLEAN :
         tweets' = [k \in 1..n |->
                      processTweet(ChainRaw(n, IF oldestFirst THEN k
                                               ELSE n + 1 - k, closing))]
  /\ UNCHANGED <<gwVars, grouped, gpc, regrouped, cfVars, fuVars, soVars, auxVars>>

NextWalk == Linked \/ Chain \/ Group

SpecWalk == InitGT /\ [][NextWalk]_vars

(***************************************************************************)
(* fetchUserTweets and fetchAllReplies (api.ts lines 272-584).             *)
(*                                                                         *)
(* fu is the call of fetchUserTweets under way: its position (pc), its     *)
(* locals and, in fr, the locals of the fetchAllReplies it awaits.  An     *)
(* action is the code between two awaits: from the settling of a request   *)
(* of makeApiRequest, or from the timer of a pause, to the next await.     *)
(* What makeApiRequest settles with is an input: a response, or one of the *)
(* ways the gateway rejects.                                               *)
(*                                                                         *)
(* A post of a response is known by its id, its reply count and how it     *)
(* fares with the filters: "own" is by the requested user, "other" is by   *)
(* somebody else, "mention" is by the user but starts with the @name of    *)
(* another.  Ids are chronological: the creation date of post i is i.      *)
(***************************************************************************)
MaxIds == 2
MaxPage == 2
MaxToken == 1
MaxCalls == 2

REPLY_MAX_ATTEMPTS == 3
ManyReplies == 10
MoreThreads == 5
BusyReplyCount == 2

\* The handles "B" and "b" as character codes.
Handles == {<<66>>, <<98>>}

\* A lookup that compares handles as they are written.
toLowerCaseNot(h) == h

\* String.prototype.toLowerCase on the letters A-Z.
toLowerCase(h) ==
  [i \in 1..Len(h) |-> IF h[i] \in 65..90 THEN h[i] + 32 ELSE h[i]]

\* The options argument; None is an option left out.
Options ==
  {[initialFetch |-> None, maxTweets |-> None],
   [initialFetch |-> 20, maxTweets |-> 1]}

Kinds == {"own", "other", "mention"}

RawPosts ==
  {[tweet_id |-> i, creation_date |-> i, kind |-> k, reply_count |-> n] :
     i \in 1..MaxIds, k \in Kinds, n \in {0, 3}}

SeqsUpTo(S, n) == UNION {[1..k -> S] : k \in 0..n}

\* The responses of user/details, of user/tweets (and its continuation) and
\* of tweet/replies (and its continuation).  padding is the number of
\* further replies, all by other users, at the end of the page.
UserDetails == [user_id : {None, Self}]

TimelinePages ==
  [results : SeqsUpTo({p \in RawPosts : p.kind = "own" \/ p.reply_count = 0},
                      MaxPage),
   continuation_token : 0..MaxToken]

ReplyPages ==
  [replies : SeqsUpTo({p \in RawPosts : p.reply_count = 0}, MaxPage),
   padding : {0, ManyReplies},
   continuation_token : 0..MaxToken]

\* The ways makeApiRequest rejects.
Rejections == {"apiError", "parseError", "skipped"}

\* processTweet, the fields fetchUserTweets and fetchAllReplies use.
Post(raw) ==
  [id |-> raw.tweet_id, created_at |-> raw.creation_date,
   reply_count |-> raw.reply_count, kind |-> raw.kind,
   thread_position |-> None - 1]

\* processTweets
processTweets(results) == [k \in 1..Len(results) |-> Post(results[k])]

\* t.author.username.toLowerCase() === username.toLowerCase()
isAuthor(t) == t.kind # "other"

\* text.match(/^@[a-zA-Z0-9_]+/) && !text.startsWith(`@${username}`)
mentionsOther(t) == t.kind = "mention"

\* The filter of lines 302-320 and 492-508: by the author, not seen, not a
\* mention of another user; a post that passes is marked as seen.
RECURSIVE FilterNew(_, _, _, _)
FilterNew(posts, k, seen, acc) ==
  IF k > Len(posts) THEN [list |-> acc, seen |-> seen]
  ELSE IF isAuthor(posts[k]) /\ posts[k].id \notin seen
             /\ ~mentionsOther(posts[k])
    THEN FilterNew(posts, k + 1, seen \cup {posts[k].id},
                   Append(acc, posts[k]))
    ELSE FilterNew(posts, k + 1, seen, acc)

\* The filter of lines 460-464 and 530-534.
RECURSIVE FilterUnseen(_, _, _, _)
FilterUnseen(posts, k, seen, acc) ==
  IF k > Len(posts) THEN [list |-> acc, seen |-> seen]
  ELSE IF posts[k].id \notin seen
    THEN FilterUnseen(posts, k + 1, seen \cup {posts[k].id},
                      Append(acc, posts[k]))
    ELSE FilterUnseen(posts, k + 1, seen, acc)

\* The filter of lines 423-436, which does not look at the ids.
FilterInitial(posts) ==
  LET Keep(t) == isAuthor(t) /\ ~mentionsOther(t)
  IN SelectSeq(posts, Keep)

\* Lines 446-449 and 516-519: the ids of the posts with more than min
\* replies, most replies first, cap of them at most.
PickThreads(posts, min, cap) ==
  LET Busy(t) == t.reply_count > min
      busy == SelectSeq(posts, Busy)
      sorted == Sort(busy, Table(busy, LAMBDA a, b :
                                   b.reply_count - a.reply_count))
  IN [k \in 1..Min(Len(sorted), cap) |-> sorted[k].id]

\* Lines 373-389: more than one reply is sorted by creation date and
\* numbered.
OrderReplies(allReplies) ==
  IF Len(allReplies) > 1
    THEN LET sorted == Sort(allReplies,
                            Table(allReplies, LAMBDA a, b :
                                    DateDiff(a.created_at, b.created_at)))
         IN [k \in 1..Len(sorted) |->
               [sorted[k] EXCEPT !.thread_position = k - 1]]
    ELSE allReplies

\* The call has returned list (lines 566-567, 575 and 408); its locals are
\* gone, its arguments are kept as history.
Return(F, list) ==
  [NoFetch EXCEPT !.pc = "done", !.n = F.n, !.username = F.username,
                  !.maxTweets = F.maxTweets, !.result = <<list>>]

\* The end of the try block: the list is returned, and cached by the
\* action that takes this step.
Finish(F) == Return(F, F.allTweets)

\* A failure that leaves the call without a result.
FailThrow(F) == [F EXCEPT !.pc = "thrown"]

\* The catch block of lines 568-576.
Fail(F) == [Return(F, <<>>) EXCEPT !.failed = TRUE]

\* A continuation loop that does not count its pages.
ContinuationLoopNoCap(F) ==
  IF /\ F.continuationToken # None
     /\ Len(F.allTweets) < F.maxTweets
    THEN [F EXCEPT !.pc = "continuation"]
    ELSE Finish(F)

\* The while condition of line 486, then the request of line 489 or the
\* end of the loop.
ContinuationLoop(F) ==
  IF /\ F.continuationToken # None
     /\ Len(F.allTweets) < F.maxTweets
     /\ F.continuationCount < config.maxContinuations
    THEN [F EXCEPT !.pc = "continuation"]
    ELSE Finish(F)

\* Lines 551-556.
AfterContinuation(F) ==
  [F EXCEPT !.continuationToken = F.nextToken, !.nextToken = None,
            !.continuationCount = @ + 1, !.phase = "continuation",
            !.pc = "continuationPause"]

\* A fetchAllReplies that knows no page limit.
PageCapNever(F) == FALSE

\* pageCount >= REPLY_MAX_PAGES (lines 286 and 370).
PageCapReached(F) == F.fr.pageCount >= config.replyMaxPages

\* Lines 373-392, then the caller's lines 459-472 (or 529-542): the replies
\* are ordered and returned, the new ones are added to allTweets.
FinishReplies(F) ==
  LET replies == OrderReplies(F.fr.allReplies)
      new == FilterUnseen(replies, 1, F.uniqueTweetIds, <<>>)
  IN [F EXCEPT !.fr = NoReplies, !.replies = <<replies>>,
               !.capped = /\ F.fr.fetched >= config.replyMaxPages
                          /\ F.fr.continuationToken # None,
               !.allTweets = @ \o new.list,
               !.uniqueTweetIds = new.seen,
               !.pc = "threadPause"]

\* The head of the do loop (lines 283-296).
ReplyLoopTop(F) ==
  IF PageCapReached(F) THEN FinishReplies(F)
  ELSE [F EXCEPT !.pc = "replies"]

\* The while condition of line 370.
ReplyLoopCond(F) ==
  /\ F.fr.continuationToken # None
  /\ F.fr.attempts < REPLY_MAX_ATTEMPTS
  /\ ~PageCapReached(F)

\* fetchAllReplies(id, username) is called.
StartReplies(F, id) ==
  ReplyLoopTop([F EXCEPT !.fr = [NoReplies EXCEPT !.tweetId = id],
                         !.replies = <<>>, !.capped = FALSE])

\* The for loops of lines 454 and 524 go on to the next post, or end.
NextThread(F) ==
  IF F.todo # <<>>
    THEN StartReplies([F EXCEPT !.todo = Tail(@)], Head(F.todo))
    ELSE IF F.phase = "threads"
      THEN ContinuationLoop([F EXCEPT !.replies = <<>>, !.capped = FALSE])
      ELSE AfterContinuation([F EXCEPT !.replies = <<>>, !.capped = FALSE])

\* A page handler that takes over the token of every page.
ReplyPageAnyToken(F, response) ==
  LET filtered == FilterNew(processTweets(response.replies), 1,
                            F.fr.uniqueReplyIds, <<>>)
  IN [F EXCEPT !.fr.allReplies = @ \o filtered.list,
               !.fr.uniqueReplyIds = filtered.seen,
               !.fr.continuationToken = response.continuation_token,
               !.fr.pageCount = @ + 1,
               !.fr.fetched = @ + 1,
               !.fr.attempts = 0,
               !.fr.page = <<[accepted |-> Len(filtered.list),
                              length |-> Len(response.replies)
                                           + response.padding,
                              continuation_token |->
                                response.continuation_token]>>,
               !.pc = "replyPause"]

\* Lines 298-353: a reply page has arrived.
ReplyPage(F, response) ==
  LET length == Len(response.replies) + response.padding
      filtered == FilterNew(processTweets(response.replies), 1,
                            F.fr.uniqueReplyIds, <<>>)
      token ==
        IF length > 0
          THEN IF Len(filtered.list) > 0
                 THEN IF response.continuation_token # None
                        THEN response.continuation_token
                        ELSE F.fr.continuationToken
                 ELSE IF length >= ManyReplies
                         /\ response.continuation_token # None
                        THEN response.continuation_token
                        ELSE None
          ELSE None
  IN [F EXCEPT !.fr.allReplies = @ \o filtered.list,
               !.fr.uniqueReplyIds = filtered.seen,
               !.fr.continuationToken = token,
               !.fr.pageCount = @ + 1,
               !.fr.fetched = @ + 1,
               !.fr.attempts = 0,
               !.fr.page = <<[accepted |-> Len(filtered.list),
                              length |-> length,
                              continuation_token |->
                                response.continuation_token]>>,
               !.pc = "replyPause"]

\* Lines 491-549: a continuation page has arrived.
ContinuationPage(F, response) ==
  LET additional == FilterNew(processTweets(response.results), 1,
                              F.uniqueTweetIds, <<>>)
      threads == PickThreads(additional.list, BusyReplyCount, MoreThreads)
      F1 == [F EXCEPT !.allTweets = @ \o additional.list,
                      !.uniqueTweetIds = additional.seen,
                      !.nextToken = response.continuation_token,
                      !.phase = "continuation"]
  IN IF Len(threads) > 0
       THEN StartReplies([F1 EXCEPT !.todo = Tail(threads)], Head(threads))
       ELSE AfterContinuation(F1)

\* An initial page after which the continuation loop starts with the
\* selected posts still to do.
InitialPageContinuationFirst(F, response) ==
  LET allTweets == FilterInitial(processTweets(response.results))
      threads == PickThreads(allTweets, 0, config.threadsToProcess)
  IN ContinuationLoop([F EXCEPT !.allTweets = allTweets,
                                !.continuationToken =
                                  response.continuation_token,
                                !.phase = "threads", !.todo = threads])

\* Lines 422-486: the initial page has arrived.
InitialPage(F, response) ==
  LET allTweets == FilterInitial(processTweets(response.results))
      threads == PickThreads(allTweets, 0, config.threadsToProcess)
      F1 == [F EXCEPT !.allTweets = allTweets,
                      !.uniqueTweetIds = {allTweets[k].id :
                                            k \in 1..Len(allTweets)},
                      !.continuationToken = response.continuation_token,
                      !.phase = "threads"]
  IN IF Len(threads) > 0
       THEN StartReplies([F1 EXCEPT !.todo = Tail(threads)], Head(threads))
       ELSE ContinuationLoop(F1)

\* The step ends: fu is F, and a list returned from the end of the try
\* block is in the cache under the lower-case handle (line 566).
CommitFetch(F) ==
  /\ fu' = F
  /\ userTweets' =
       IF F.pc = "done" /\ ~F.failed /\ ~F.cached
         THEN MapSet(userTweets, toLowerCase(F.username), F.result[1])
         ELSE userTweets
  /\ UNCHANGED <<gwVars, gtVars, cfVars, soVars, auxVars>>

\* fetchUserTweets(username, options) is called (lines 400-414).
FetchCall(username, options) ==
  /\ fu.pc \in {"idle", "done"}
  /\ fu.n < MaxCalls
  /\ LET cacheKey == toLowerCase(username)
         F == [NoFetch EXCEPT
                 !.n = fu.n + 1, !.username = username,
                 !.maxTweets = IF options.maxTweets # None
                                 THEN options.maxTweets
                                 ELSE config.maxTweets]
     IN IF MapHas(userTweets, cacheKey)
          THEN CommitFetch([Return(F, MapGet(userTweets, cacheKey))
                              EXCEPT !.cached = TRUE, !.why = "cache"])
          ELSE CommitFetch([F EXCEPT !.pc = "lookup"])

\* A lookup whose answer is not looked at.
LookupDoneUnchecked(userData) ==
  /\ fu.pc = "lookup"
  /\ CommitFetch([fu EXCEPT !.pc = "initial"])

\* The user/details request settles (lines 414-419).
LookupDone(userData) ==
  /\ fu.pc = "lookup"
  /\ IF userData.user_id = None
       THEN CommitFetch([Fail(fu) EXCEPT !.why = "noUserId"])
       ELSE CommitFetch([fu EXCEPT !.pc = "initial"])

LookupFail(rejection) ==
  /\ fu.pc = "lookup"
  /\ CommitFetch([Fail(fu) EXCEPT !.why = "lookup"])

\* The user/tweets request settles.
InitialDone(response) ==
  /\ fu.pc = "initial"
  /\ CommitFetch(InitialPage(fu, response))

InitialFail(rejection) ==
  /\ fu.pc = "initial"
  /\ CommitFetch([Fail(fu) EXCEPT !.why = "initial"])

\* A tweet/replies request settles; the catch of lines 357-362.
ReplyDone(response) ==
  /\ fu.pc = "replies"
  /\ CommitFetch(ReplyPage(fu, response))

ReplyFail(rejection) ==
  /\ fu.pc = "replies"
  /\ CommitFetch([fu EXCEPT !.fr.attempts = @ + 1, !.pc = "replyErrorPause"])

\* The pause of line 356 ends.
ReplyPause ==
  /\ fu.pc = "replyPause"
  /\ LET F == [fu EXCEPT !.fr.page = <<>>]
     IN CommitFetch(IF ReplyLoopCond(F) THEN ReplyLoopTop(F)
                                        ELSE FinishReplies(F))

\* The pause of line 362 ends (lines 364-370).
ReplyErrorPause ==
  /\ fu.pc = "replyErrorPause"
  /\ CommitFetch(IF fu.fr.attempts >= REPLY_MAX_ATTEMPTS
                   THEN FinishReplies(fu)
                   ELSE IF ReplyLoopCond(fu) THEN ReplyLoopTop(fu)
                                             ELSE FinishReplies(fu))

\* The pause of line 472 or 542 ends.
ThreadPause ==
  /\ fu.pc = "threadPause"
  /\ CommitFetch(NextThread(fu))

\* A user/tweets/continuation request settles; the catch of lines 557-560.
ContinuationDone(response) ==
  /\ fu.pc = "continuation"
  /\ CommitFetch(ContinuationPage(fu, response))

\* A rejected continuation page that ends the call in the outer catch.
ContinuationFailEmpty(rejection) ==
  /\ fu.pc = "continuation"
  /\ CommitFetch([Fail(fu) EXCEPT !.why = "continuation"])

ContinuationFail(rejection) ==
  /\ fu.pc = "continuation"
  /\ CommitFetch([Finish(fu) EXCEPT !.why = "continuation"])

\* The pause of line 556 ends.
ContinuationPause ==
  /\ fu.pc = "continuationPause"
  /\ CommitFetch(ContinuationLoop(fu))

NextFU ==
  \/ \E username \in Handles, options \in Options :
       FetchCall(username, options)
  \/ \E userData \in UserDetails : LookupDone(userData)
  \/ \E rejection \in Rejections : LookupFail(rejection)
  \/ \E response \in TimelinePages : InitialDone(response)
  \/ \E rejection \in Rejections : InitialFail(rejection)
  \/ \E response \in ReplyPages : ReplyDone(response)
  \/ \E rejection \in Rejections : ReplyFail(rejection)
  \/ ReplyPause
  \/ ReplyErrorPause
  \/ ThreadPause
  \/ \E response \in TimelinePages : ContinuationDone(response)
  \/ \E rejection \in Rejections : ContinuationFail(rejection)
  \/ ContinuationPause

SpecFU == Init /\ [][NextFU]_vars

(***************************************************************************)
(* The two sorts by creation date on posts whose dates may not parse: the  *)
(* one of fetchAllReplies (lines 373-389) on the replies it gathered, and  *)
(* the one of groupThreads (lines 640-656) on a self-thread whose posts    *)
(* carry no thread_position yet.  The dates of one list all parse or all   *)
(* fail to parse.  ordered is <<the input and the two results>>.           *)
(***************************************************************************)
MaxPosts == 3

\* The lists of posts with distinct ids, in every order of arrival.
PostLists ==
  {q \in SeqsUpTo([tweet_id : 1..MaxPosts,
                    creation_date : (1..MaxPosts) \cup {InvalidDate},
                    kind : {"own"}, reply_count : {0}], MaxPosts) :
     /\ Len(q) >= 1
     /\ \A j, k \in 1..Len(q) : j # k => q[j].tweet_id # q[k].tweet_id
     /\ \/ \A k \in 1..Len(q) : q[k].creation_date = InvalidDate
        \/ \A k \in 1..Len(q) : q[k].creation_date # InvalidDate}

\* The post as a member of a self-thread whose root is not in the array.
SelfReply(raw) ==
  processTweet([tweet_id |-> raw.tweet_id,
                creation_date |-> raw.creation_date,
                user_id |-> Self, conversation_id |-> AbsentId,
                thread_id |-> None,
                in_reply_to_status_id |-> AbsentId,
                in_reply_to_user_id |-> Self])

OrderPosts(posts) ==
  /\ ordered = <<>>
  /\ LET T == [k \in 1..Len(posts) |-> SelfReply(posts[k])]
     IN ordered' =
          <<[posts |-> processTweets(posts),
             replies |-> OrderReplies(processTweets(posts)),
             tweets |-> T,
             grouped |-> groupThreads(T, Unset(Len(T)), Unset(Len(T)))]>>
  /\ UNCHANGED <<gwVars, gtVars, cfVars, fuVars, auxVars>>

NextSort == \E posts \in PostLists : OrderPosts(posts)

SpecSort == Init /\ [][NextSort]_vars

(***************************************************************************)
(* Calls of fetchUserTweets that overlap (api.ts lines 396-577).  The      *)
(* function looks into the cache before its first await (405-409) and      *)
(* writes it after its last (566); at every await in between another call  *)
(* may start or go on.  runs holds the calls in the order they started: a  *)
(* call is "running" at one of its awaits or "done"; what it gathers is    *)
(* an input of the step that ends it.  overlapped (history) tells that     *)
(* another call for the same cache key was running when it started.        *)
(***************************************************************************)
\* the number of calls
MaxRuns == 3

\* The lists a call may have gathered when it reaches line 566.
Gathered == {<<>>, <<1>>, <<2, 1>>}

\* Lines 405-409: the call returns the cached list or goes on to the
\* user lookup.
StartRun(username) ==
  /\ Len(runs) < MaxRuns
  /\ LET cacheKey == toLowerCase(username)
         run == [username |-> username, pc |-> "running", result |-> <<>>,
                 cached |-> FALSE, failed |-> FALSE,
                 overlapped |->
                   \E c \in 1..Len(runs) :
                     /\ runs[c].pc = "running"
                     /\ toLowerCase(runs[c].username) = cacheKey]
     IN runs' = Append(runs,
                  IF MapHas(userTweets, cacheKey)
                    THEN [run EXCEPT !.pc = "done", !.cached = TRUE,
                                     !.result = <<MapGet(userTweets, cacheKey)>>]
                    ELSE run)
  /\ UNCHANGED <<gwVars, gtVars, cfVars, userTweets, fu, soVars, normalized>>

\* Lines 566-567: the call caches and returns allTweets.
EndRun(c, allTweets) ==
  /\ runs[c].pc = "running"
  /\ runs' = [runs EXCEPT ![c].pc = "done", ![c].result = <<allTweets>>]
  /\ userTweets' = MapSet(userTweets, toLowerCase(runs[c].username), allTweets)
  /\ UNCHANGED <<gwVars, gtVars, cfVars, fu, soVars, normalized>>

\* A catch block that caches the empty list it returns.
FailRunCaches(c) ==
  /\ runs[c].pc = "running"
  /\ runs' = [runs EXCEPT ![c].pc = "done", ![c].result = <<<<>>>>,
                          ![c].failed = TRUE]
  /\ userTweets' = MapSet(userTweets, toLowerCase(runs[c].username), <<>>)
  /\ UNCHANGED <<gwVars, gtVars, cfVars, fu, soVars, normalized>>

\* Lines 568-576: an error thrown at one of the awaits is caught; the call
\* returns the empty list.
FailRun(c) ==
  /\ runs[c].pc = "running"
  /\ runs' = [runs EXCEPT ![c].pc = "done", ![c].result = <<<<>>>>,
                          ![c].failed = TRUE]
  /\ UNCHANGED <<gwVars, gtVars, cfVars, fuVars, soVars, normalized>>

NextRuns ==
  \/ \E username \in Handles : StartRun(username)
  \/ \E c \in 1..Len(runs), allTweets \in Gathered : EndRun(c, allTweets)
  \/ \E c \in 1..Len(runs) : FailRun(c)

SpecRuns == Init /\ [][NextRuns]_vars

(***************************************************************************)
(* The text of a post: detectTruncatedText (api.ts lines 179-202) and the  *)
(* text fields of processTweet (205-206, 223-226, 265).                    *)
(*                                                                         *)
(* A text is known by what the code asks of it: its length, whether it     *)
(* holds a character of one of the listed non-Latin scripts, its last      *)
(* word, what follows the last word ("none", "period" for one of . ! ? ",  *)
(* "ellipsis" for the character U+2026, "dots" for three full stops) and   *)
(* whether a t.co link, after one space, closes it.  The words before the  *)
(* last hold neither an ellipsis nor a link.                               *)
(***************************************************************************)
\* the longest text
MaxText == 300
\* the length of " https://t.co/" and a ten-letter path
LinkLen == 24

\* the length of the part of the text the model tells apart
SuffixLen(t) ==
  Len(t.last)
    + (CASE t.tail = "none" -> 0 [] t.tail = "dots" -> 3 [] OTHER -> 1)
    + (IF t.link THEN LinkLen ELSE 0)

\* The texts: the empty one (textContent defaults to '') and the others.
Texts ==
  {[len |-> 0, nonLatin |-> FALSE, last |-> "", tail |-> "none",
    link |-> FALSE]} \cup
  {t \in [len : 1..MaxText, nonLatin : BOOLEAN, last : {"word", "the"},
          tail : {"none", "period", "ellipsis", "dots"}, link : BOOLEAN] :
     t.len >= SuffixLen(t)}

commonTruncationEnders == {"the", "a", "an", "to", "in", "on", "at", "by",
                           "for", "with", "about", "like", "of", "all"}

detectTruncatedText(t) ==
  LET \* text.endsWith('…') || text.endsWith('...')
      EndsWithEllipsis == ~t.link /\ t.tail \in {"ellipsis", "dots"}
      \* text.includes('… https://') || text.includes('... https://')
      EllipsisBeforeLink == t.link /\ t.tail \in {"ellipsis", "dots"}
      \* the last of the words text.trim().split(/\s+/) gives: the link
      \* when there is one, else the last word with what follows it
      EndsOnEnder ==
        ~t.link /\ t.tail = "none" /\ t.last \in commonTruncationEnders
      \* /[.!?"]$/.test(text.trim())
      EndsInPunctuation == ~t.link /\ t.tail \in {"period", "dots"}
      thresholdLength == IF t.nonLatin THEN 180 ELSE 240
  IN IF t.len = 0 THEN FALSE
     ELSE IF EndsWithEllipsis THEN TRUE
     ELSE IF EllipsisBeforeLink THEN TRUE
     ELSE IF EndsOnEnder THEN TRUE
     ELSE t.len >= thresholdLength /\ ~EndsInPunctuation

cleanedText(t) ==
  LET \* .replace(/\s*https:\/\/t\.co\/\w+$/g, '')
      StripLink(x) ==
        IF x.link THEN [x EXCEPT !.link = FALSE, !.len = @ - LinkLen] ELSE x
      \* .replace(/(\s*[…\.]{3,})$/g, ''): three or more of the two
      \* characters; a lone ellipsis character or full stop stays.
      StripDots(x) ==
        IF ~x.link /\ x.tail = "dots"
          THEN [x EXCEPT !.tail = "none", !.len = @ - 3]
          ELSE x
  IN StripDots(StripLink(t))

\* processTweet, the text fields: textContent is the raw text.
normalizeTextLong240(textContent) ==
  [full_text |-> cleanedText(textContent),
   is_long |-> textContent.len > 240 \/ detectTruncatedText(textContent)]

normalizeText(textContent) ==
  [full_text |-> cleanedText(textContent),
   is_long |-> textContent.len > 280 \/ detectTruncatedText(textContent)]

\* processTweet on one raw record; normalized is <<the text and the post>>.
Normalize(textContent) ==
  /\ normalized = <<>>
  /\ normalized' = <<[raw |-> textContent, post |-> normalizeText(textContent)]>>
  /\ UNCHANGED <<gwVars, gtVars, cfVars, fuVars, soVars, runs>>

NextText == \E textContent \in Texts : Normalize(textContent)

SpecText == Init /\ [][NextText]_vars

(***************************************************************************)
(* TwitterConfig (api.ts lines 31-48) and the settings sheet that calls    *)
(* its setters (TweetThread.tsx lines 451-454).  rejected (history) counts *)
(* the assignments the last handler refused.                               *)
(***************************************************************************)
FetchLimitMax == 100

\* How far from the two ends of the accepted range the arguments of the
\* setters go.
MaxOver == 2

ConfigArgs ==
  ((0 - MaxOver)..MaxOver)
    \cup ((FetchLimitMax - MaxOver)..(FetchLimitMax + MaxOver))
    \cup {200, 300}

\* The values the sliders of the settings sheet can hold.
SliderFetch == {10 * k : k \in 1..10}
SliderMax == {50 * k : k \in 1..6}

\* A setter without the upper limit.
setFetchLimitNoCap(cfg, limit) ==
  IF limit > 0 THEN [cfg EXCEPT !.fetchLimit = limit] ELSE cfg

setFetchLimit(cfg, limit) ==
  IF limit > 0 /\ limit <= FetchLimitMax
    THEN [cfg EXCEPT !.fetchLimit = limit]
    ELSE cfg

setMaxTweets(cfg, max) ==
  IF max > 0 THEN [cfg EXCEPT !.maxTweets = max] ELSE cfg

\* 1 when the setter left the field as it was although asked for another
\* value.
Refused(old, new, arg) == IF old = new /\ arg # old THEN 1 ELSE 0

SetFetchLimit(limit) ==
  /\ config' = setFetchLimit(config, limit)
  /\ rejected' = Refused(config.fetchLimit, config'.fetchLimit, limit)
  /\ UNCHANGED <<gwVars, gtVars, fuVars, soVars, auxVars>>

SetMaxTweets(max) ==
  /\ config' = setMaxTweets(config, max)
  /\ rejected' = Refused(config.maxTweets, config'.maxTweets, max)
  /\ UNCHANGED <<gwVars, gtVars, fuVars, soVars, auxVars>>

handleSaveSettings(initialFetch, maxTweets) ==
  /\ config' = setMaxTweets(setFetchLimit(config, initialFetch), maxTweets)
  /\ rejected' = Refused(config.fetchLimit, config'.fetchLimit, initialFetch)
                   + Refused(config.maxTweets, config'.maxTweets, maxTweets)
  /\ UNCHANGED <<gwVars, gtVars, fuVars, soVars, auxVars>>

NextCfg ==
  \/ \E limit \in ConfigArgs : SetFetchLimit(limit)
  \/ \E max \in ConfigArgs : SetMaxTweets(max)
  \/ \E a \in SliderFetch, b \in SliderMax : handleSaveSettings(a, b)

SpecCfg == Init /\ [][NextCfg]_vars

(***************************************************************************)
(* Properties of the gateway.                                              *)
(***************************************************************************)
ReqIds == 1..Len(reqs)
Enqueued(r) == reqs[r].st # "skipped"

\* A step in which makeApiRequest(u) is called with retryCount = 0.
CallStep(u) ==
  /\ Len(reqs') = Len(reqs) + 1
  /\ reqs'[Len(reqs')].url = u

\* The called request is failed at once and nothing is sent.
Skipped == reqs'[Len(reqs')].st = "skipped" /\ fire' = fire

\* The called request is queued or already on the wire.
Accepted == reqs'[Len(reqs')].st \in {"queued", "throttle", "inflight"}

Elapsed(rec) == now - rec.timestamp

DeadlinePassed(rec) == rec.retryAfter # <<>> /\ now > rec.retryAfter[1]

\* C1: any two network calls that fire are at least MIN_API_CALL_INTERVAL
\* (2000 ms) apart in start time, whoever made them (first attempts and
\* retries alike).
C1_ThrottleGap == fire.gap >= MIN_API_CALL_INTERVAL

C1_Witness ==
  \E r, q \in ReqIds :
    r # q /\ reqs[r].calls >= 2 /\ reqs[q].st = "inflight"

\* C6 as claimed: a request for a url with a failure record is failed at
\* once whenever less than 10 minutes have passed since the record was
\* written, or the record is a 429 whose retry-after deadline has not passed.
C6_Original ==
  [][\A u \in Urls :
       ( /\ CallStep(u)
         /\ failedRequests[u] # NoRecord
         /\ \/ Elapsed(failedRequests[u]) < FAILED_REQUEST_EXPIRY
            \/ /\ failedRequests[u].errorCode = 429
               /\ ~DeadlinePassed(failedRequests[u]) )
       => Skipped]_vars

\* C6 amended: a request for a url with a failure record is failed at once,
\* with no network call, whenever less than 10 minutes have passed since the
\* record was written and, if the record carries a retry-after deadline (a
\* 429 record, 60 s), that deadline has not passed.
C6_SkipWhileLive ==
  [][\A u \in Urls :
       ( /\ CallStep(u)
         /\ failedRequests[u] # NoRecord
         /\ Elapsed(failedRequests[u]) < FAILED_REQUEST_EXPIRY
         /\ ~DeadlinePassed(failedRequests[u]) )
       => Skipped]_vars

C6_Witness ==
  \E r \in ReqIds :
    /\ reqs[r].st = "skipped"
    /\ failedRequests[reqs[r].url].errorCode = 429
    /\ \E u \in Urls : failedRequests[u].errorCode \in {0, 500}

\* C7 as claimed: once more than 10 minutes have passed since the record of
\* a url was written, the next request for the url purges the record and is
\* sent; before that the request is not sent.
C7_Original ==
  [][\A u \in Urls :
       (CallStep(u) /\ failedRequests[u] # NoRecord)
       => IF Elapsed(failedRequests[u]) > FAILED_REQUEST_EXPIRY
            THEN failedRequests'[u] = NoRecord /\ Accepted
            ELSE Skipped]_vars

\* C7 amended: the window of a record ends 10 minutes after it was written
\* or, for a record with a retry-after deadline (a 429 record, 60 s), at
\* that deadline if it comes first.  Once the window has passed, the next
\* request for the url purges the record and is sent; before that it is
\* failed at once with no network call and the record stays.
WindowPassed(rec) ==
  Elapsed(rec) > FAILED_REQUEST_EXPIRY \/ DeadlinePassed(rec)

C7_ExpiryWindow ==
  [][\A u \in Urls :
       (CallStep(u) /\ failedRequests[u] # NoRecord)
       => IF WindowPassed(failedRequests[u])
            THEN failedRequests'[u] = NoRecord /\ Accepted
            ELSE Skipped /\ failedRequests'[u] = failedRequests[u]]_vars

C7_Witness ==
  \E r, q \in ReqIds :
    /\ q < r
    /\ reqs[q].url = reqs[r].url
    /\ reqs[q].st = "apiError"
    /\ reqs[r].st = "inflight"
    /\ failedRequests[reqs[r].url] = NoRecord
    /\ jumps >= 1

\* C8: first attempts fire in the order in which makeApiRequest enqueued
\* them: when the first call of a request has fired, so has the first call
\* of every request enqueued before it.
C8_Fifo ==
  \A a, b \in ReqIds :
    (a < b /\ Enqueued(a) /\ Enqueued(b) /\ reqs[b].calls >= 1)
    => reqs[a].calls >= 1

C8_Witness ==
  /\ Len(requestQueue) >= 1
  /\ \E a, b \in ReqIds :
       a < b /\ reqs[a].calls >= 1 /\ reqs[b].calls >= 1

\* C9: at most one processQueue loop is past its guard at any time, and
\* isProcessingQueue is set exactly while one is.
C9_OneWorker ==
  /\ Cardinality(workers) <= 1
  /\ isProcessingQueue <=> workers # {}

C9_Witness ==
  /\ \E w \in workers : w.st = "throttle"
  /\ Len(requestQueue) >= 2

\* C10: a request that keeps receiving 429 is retried at most MAX_RETRIES
\* (2) times, so it makes at most 3 network calls; the first retry fires at
\* least 3000 ms and the second at least 6000 ms after the 429 response
\* before it; a 429 failure record is written only by a request whose retry
\* budget is used up.
C10_RetryBudget ==
  /\ \A r \in ReqIds :
       /\ reqs[r].retryCount <= MAX_RETRIES
       /\ reqs[r].calls <= MAX_RETRIES + 1
       /\ (reqs[r].st = "inflight" /\ reqs[r].retryCount = 1)
            => reqs[r].waited >= RETRY_DELAY
       /\ (reqs[r].st = "inflight" /\ reqs[r].retryCount = 2)
            => reqs[r].waited >= 2 * RETRY_DELAY
  /\ \A u \in Urls :
       failedRequests[u].errorCode = 429
         => failedRequests[u].attempt = MAX_RETRIES

C10_Witness ==
  \E r \in ReqIds :
    /\ reqs[r].st = "apiError"
    /\ reqs[r].calls = 3
    /\ failedRequests[reqs[r].url].errorCode = 429
    /\ failedRequests[reqs[r].url].timestamp = now

\* The precondition of C11: a response that is neither a success nor a 429
\* with retry budget left.
FinalFailure(status, retryCount) ==
  /\ ~(status >= 200 /\ status < 300)
  /\ (status # 429 \/ retryCount >= MAX_RETRIES)

\* C11: when a response has a non-2xx status other than 429, or is a 429
\* with the retry budget used up, the handler writes the record of the url
\* with the current time as timestamp, the status as error code and, for 429
\* only, a retry-after deadline 60 s ahead, and the request is rejected.
C11_RecordOnFailure ==
  [][\A r \in ReqIds, s \in Statuses, b \in Bodies :
       (Respond(r, s, b) /\ FinalFailure(s, reqs[r].retryCount))
       => /\ failedRequests'[reqs[r].url].timestamp = now
          /\ failedRequests'[reqs[r].url].errorCode = s
          /\ failedRequests'[reqs[r].url].retryAfter =
                IF s = 429 THEN <<now + RETRY_AFTER_429>> ELSE <<>>
          /\ reqs'[r].st = "apiError"]_vars

C11_Witness ==
  \E r, q \in ReqIds :
    /\ reqs[r].st = "apiError" /\ reqs[q].st = "apiError"
    /\ failedRequests[reqs[r].url].errorCode = 429
    /\ failedRequests[reqs[r].url].retryAfter = <<now + RETRY_AFTER_429>>
    /\ failedRequests[reqs[q].url].errorCode = 500
    /\ failedRequests[reqs[q].url].retryAfter = <<>>

\* Request r has made a network call in this step.
Fired(r) ==
  /\ r \in 1..Len(reqs')
  /\ reqs'[r].calls > (IF r <= Len(reqs) THEN reqs[r].calls ELSE 0)

\* C23: no network call is fired for a url that has a live failure record
\* at that moment, a request that was waiting in the queue when the record
\* was written included.
C23_NoCallWhileFailed ==
  [][\A r \in 1..MaxReq :
       Fired(r) => ~hasRecentlyFailed(failedRequests, reqs'[r].url, now)]_vars

\* C24: a request that is skipped because its url has a live failure
\* record, at the call of makeApiRequest or at its retry, leaves the whole
\* failure cache as it was: no record is written and the timestamp and the
\* retry-after deadline of the record stay.
C24_SkipLeavesCache ==
  [][/\ \A u \in Urls :
          (Call(u) /\ hasRecentlyFailed(failedRequests, u, now))
            => (failedRequests' = failedRequests
                /\ reqs'[Len(reqs')].st = "skipped")
     /\ \A r \in ReqIds :
          (BackoffWake(r)
             /\ hasRecentlyFailed(failedRequests, reqs[r].url, now))
            => (failedRequests' = failedRequests
                /\ reqs'[r].st = "skippedRetry")]_vars

\* Two requests in a row were skipped for a url whose record was written
\* some time ago.
C24_Witness ==
  \E r, q \in ReqIds :
    /\ r # q /\ reqs[r].url = reqs[q].url
    /\ reqs[r].st = "skipped" /\ reqs[q].st = "skipped"
    /\ failedRequests[reqs[r].url] # NoRecord
    /\ failedRequests[reqs[r].url].timestamp < now

\* C25: a response that is a network error (status 0), or a 2xx response
\* whose body is not JSON, ends the request without a retry and leaves a
\* failure record of its url written at that moment.
C25_RecordOnError ==
  [][\A r \in ReqIds, s \in Statuses, b \in Bodies :
       ( /\ Respond(r, s, b)
         /\ \/ s = 0
            \/ s >= 200 /\ s < 300 /\ b = "garbage" )
       => /\ reqs'[r].st \in {"apiError", "parseError"}
          /\ failedRequests'[reqs[r].url] # NoRecord
          /\ failedRequests'[reqs[r].url].timestamp = now]_vars

\* Request r has left the queue and its promise has not settled: it waits
\* for rateLimit, is on the wire, or waits for its retry.
Current(r) == reqs[r].st \in {"throttle", "inflight", "backoff"}

\* C36: the queue worker takes the next request only when the current one
\* has settled, its 429 retries included: at most one request is out of
\* the queue and unsettled, so at most one network call is in flight, and
\* while a request waits for its retry no other request makes a call.
C36_OneAtATime ==
  /\ [](\A r, q \in ReqIds : (Current(r) /\ Current(q)) => r = q)
  /\ [][\A r \in 1..MaxReq :
          Fired(r) => \A q \in ReqIds : q # r => reqs[q].st # "backoff"]_vars

\* A retry is on the wire while a request enqueued after it waits.
C36_Witness ==
  \E r, q \in ReqIds :
    /\ r < q
    /\ reqs[r].st = "inflight" /\ reqs[r].retryCount >= 1
    /\ reqs[q].st = "queued"

\* The promise of request r has settled.
Settled(r) ==
  /\ r <= Len(reqs)
  /\ reqs[r].st \in {"resolved", "parseError", "apiError", "skipped",
                     "skippedRetry"}

\* C37: when every network call completes, every request handed to
\* makeApiRequest settles in the end, whatever the worker was doing when it
\* was enqueued.
C37_EverySettles == <>[](\A r \in ReqIds : Settled(r))

\* A request enqueued while the worker sleeps in its rateLimit after an
\* earlier request.
C37_Witness ==
  \E r \in ReqIds :
    /\ reqs[r].st = "queued"
    /\ \E w \in workers : w.st = "throttle"

(***************************************************************************)
(* Properties of groupThreads.                                             *)
(***************************************************************************)
Items == grouped.items
ItemIds(e) == {tweets[o].id : o \in Range(Items[e].tweets)}
Threads == {e \in 1..Len(Items) : Items[e].kind = "thread"}

\* C2: groupThreads never emits the same post id in two different elements
\* of its output.
C2_Dedup ==
  gpc = "done" =>
    \A e, f \in 1..Len(Items) : e # f => ItemIds(e) \cap ItemIds(f) = {}

\* C3: every post id of the input occurs in some element of the output.
C3_Partition ==
  gpc = "done" =>
    \A o \in 1..Len(tweets) : \E e \in 1..Len(Items) : tweets[o].id \in ItemIds(e)

\* C4: no Thread of the output has fewer than 2 posts, and the one member of
\* a group that ended with a single member is emitted as a standalone post.
C4_MinSize ==
  gpc = "done" =>
    /\ \A e \in Threads : Len(Items[e].tweets) >= 2
    /\ \A o \in grouped.demoted :
         \E e \in 1..Len(Items) :
           Items[e].kind = "tweet" /\ Items[e].tweets = <<o>>

C4_Witness ==
  /\ gpc = "done"
  /\ Threads # {}
  /\ grouped.demoted # {}

\* C5: within every Thread of the output the threadPosition of posts[i] is
\* less than that of posts[i+1].
C5_Order ==
  gpc = "done" =>
    \A e \in Threads :
      \A k \in 1..(Len(Items[e].tweets) - 1) :
        grouped.pos[Items[e].tweets[k]] < grouped.pos[Items[e].tweets[k + 1]]

\* The creation date of the earliest member of an output element; dateOf[o]
\* is the creation date of object o.
Earliest(item, dateOf) ==
  CHOOSE d \in {dateOf[o] : o \in Range(item.tweets)} :
    \A o \in Range(item.tweets) : d <= dateOf[o]

SortedNewestFirst(items, dateOf) ==
  \A e, f \in 1..Len(items) :
    e < f => Earliest(items[e], dateOf) >= Earliest(items[f], dateOf)

\* C16: the output of groupThreads (of the first grouping and of the
\* grouping of the flattened output) is sorted newest first by
\* representative timestamp, the creation date of a Thread's earliest member
\* and a standalone post's own.
C16_NewestFirst ==
  /\ gpc = "done" =>
       SortedNewestFirst(Items, [o \in 1..Len(tweets) |-> tweets[o].created_at])
  /\ gpc = "again" =>
       SortedNewestFirst(regrouped.items,
         [k \in 1..Len(regrouped.flat) |->
            tweets[regrouped.flat[k]].created_at])

\* The partition an output makes of the post ids: the id sets of its Threads
\* and the ids of its standalone posts.  idOf[o] is the id of object o.
Partition(items, idOf) ==
  [threads |-> {{idOf[o] : o \in Range(items[e].tweets)} :
                  e \in {f \in 1..Len(items) : items[f].kind = "thread"}},
   alone |-> {idOf[items[e].tweets[1]] :
                e \in {f \in 1..Len(items) : items[f].kind = "tweet"}}]

\* C15: flattening the output of groupThreads and grouping it again gives
\* the same partition of the post ids into Threads and standalone posts.
C15_Idempotent ==
  gpc = "again" =>
    Partition(regrouped.items,
              [k \in 1..Len(regrouped.flat) |-> tweets[regrouped.flat[k]].id])
      = Partition(Items, [o \in 1..Len(tweets) |-> tweets[o].id])

\* C17: a tweet flagged is_self_thread with a conversation id whose reply
\* target is in the input is emitted, with the target, in one Thread whose
\* id is the conversation id, the target before the reply.
C17_SelfThread ==
  gpc = "done" =>
    \A o \in 1..Len(tweets) :
      ( /\ tweets[o].is_self_thread
        /\ tweets[o].conversation_id # None
        /\ tweets[o].in_reply_to_tweet_id # None
        /\ TweetMapHas(tweets, tweets[o].in_reply_to_tweet_id) )
      => \E e \in Threads :
           /\ Items[e].id = tweets[o].conversation_id
           /\ \E k, l \in 1..Len(Items[e].tweets) :
                /\ k < l
                /\ Items[e].tweets[k] =
                     TweetMapGet(tweets, tweets[o].in_reply_to_tweet_id)
                /\ Items[e].tweets[l] = o

\* A tweet that shares no conversation or thread key with another tweet of
\* the input, replies to none of them and is replied to by none of them.
Lone(o) ==
  /\ \A p \in 1..Len(tweets) :
       p # o =>
         /\ {tweets[p].conversation_id, tweets[p].thread_id}
              \cap {tweets[o].conversation_id, tweets[o].thread_id} = {}
         /\ tweets[p].in_reply_to_tweet_id # tweets[o].id
  /\ \/ tweets[o].in_reply_to_tweet_id = None
     \/ ~TweetMapHas(tweets, tweets[o].in_reply_to_tweet_id)

\* C18: such a tweet is emitted as one standalone element, in no Thread,
\* and groupThreads attaches no thread_position or thread_index to it.
C18_LoneUnchanged ==
  gpc = "done" =>
    \A o \in 1..Len(tweets) :
      Lone(o) =>
        /\ \E e \in 1..Len(Items) :
             /\ Items[e].kind = "tweet" /\ Items[e].tweets = <<o>>
             /\ \A f \in 1..Len(Items) : o \in Range(Items[f].tweets) => f = e
        /\ grouped.pos[o] = None - 1
        /\ grouped.idx[o] = None - 1

C18_Witness ==
  /\ gpc = "done"
  /\ Threads # {}
  /\ \E o \in 1..Len(tweets) :
       /\ Lone(o)
       /\ \E p \in 1..Len(tweets) :
            /\ p < o /\ tweets[p].author = tweets[o].author
            /\ tweets[p].in_reply_to_tweet_id # None
            /\ tweets[p].id \notin grouped.demoted

(***************************************************************************)
(* Properties of fetchUserTweets and fetchAllReplies.                      *)
(***************************************************************************)
PostIds(list) == {list[k].id : k \in 1..Len(list)}

\* The call under way has returned.
Returned == fu.pc = "done"

\* Two handles that differ at most in the case of their letters.
EqualUpToCase(g, h) ==
  /\ Len(g) = Len(h)
  /\ \A i \in 1..Len(g) :
       \/ g[i] = h[i]
       \/ g[i] \in 65..90 /\ h[i] = g[i] + 32
       \/ h[i] \in 65..90 /\ g[i] = h[i] + 32

C13_NoPropagation ==
  /\ [](fu.pc \in {"idle", "done", "lookup", "initial", "replies",
                   "replyPause", "replyErrorPause", "threadPause",
                   "continuation", "continuationPause"})
  /\ [](Returned => Len(fu.result) = 1)
  /\ [][\A rejection \in Rejections :
          /\ (LookupFail(rejection) \/ InitialFail(rejection)
                \/ LookupDone([user_id |-> None]))
               => (fu'.pc = "done" /\ fu'.result = <<<<>>>>)
          /\ ReplyFail(rejection) => fu'.pc = "replyErrorPause"
          /\ ContinuationFail(rejection)
               => (fu'.pc = "done" /\ fu'.result = <<fu.allTweets>>)]_vars

C13_Witness ==
  /\ Returned /\ fu.failed /\ fu.n = 2
  /\ fu.result = <<<<>>>>
  /\ userTweets = <<>>

\* C14: the list fetchUserTweets returns from the end of its try block
\* holds no two posts with the same id.
C14_NoDuplicates ==
  (Returned /\ ~fu.failed /\ ~fu.cached)
    => Cardinality(PostIds(fu.result[1])) = Len(fu.result[1])

\* C19: fetchAllReplies fetches at most replyMaxPages (4) pages for one
\* root post; when that many are fetched and a continuation token is left,
\* it stops at the end of the pause and returns the replies gathered so
\* far, and the call of fetchUserTweets goes on.
C19_PageCap ==
  /\ [](fu.fr.fetched <= DefaultConfig.replyMaxPages)
  /\ [][( /\ ReplyPause
          /\ fu.fr.fetched >= DefaultConfig.replyMaxPages
          /\ fu.fr.continuationToken # None )
        => /\ fu'.pc = "threadPause"
           /\ Len(fu'.replies[1]) = Len(fu.fr.allReplies)
           /\ PostIds(fu'.replies[1]) = PostIds(fu.fr.allReplies)]_vars

C19_Witness ==
  /\ fu.pc = "threadPause"
  /\ fu.capped
  /\ Len(fu.replies[1]) >= 2

\* C22: all the posts of a Thread that groupThreads emits have one author.
C22_SingleAuthor ==
  gpc = "done" =>
    \A e \in Threads :
      \A o, q \in Range(Items[e].tweets) :
        tweets[o].author = tweets[q].author

\* The phase of the run: ResolveUser 1, InitialFetch 2, ThreadEnrichment 3,
\* ContinuationLoop 4, Done 5 (0 before the first call).
PhaseOf(F) ==
  CASE F.pc = "idle" -> 0
    [] F.pc = "lookup" -> 1
    [] F.pc = "initial" -> 2
    [] F.pc = "done" -> 5
    [] F.pc \in {"continuation", "continuationPause"} -> 4
    [] OTHER -> IF F.phase = "threads" THEN 3 ELSE 4

\* C21: within one run of fetchUserTweets the phase never goes back; the
\* user lookup is the first request, the initial timeline request follows
\* the lookup, a reply request is made only after the initial page has
\* arrived, and a continuation page is requested only when no selected
\* post is left to do and no fetchAllReplies is under way.
C21_PhaseOrder ==
  [][/\ fu'.n = fu.n => PhaseOf(fu') >= PhaseOf(fu)
     /\ fu'.n # fu.n => (fu.pc \in {"idle", "done"}
                          /\ fu'.pc \in {"lookup", "done"})
     /\ (fu'.pc = "initial" /\ fu.pc # "initial") => fu.pc = "lookup"
     /\ fu'.pc = "replies" => fu.pc \notin {"idle", "done", "lookup"}
     /\ (fu'.pc = "continuation" /\ fu' # fu)
          => (fu'.todo = <<>> /\ fu'.fr = NoReplies
              /\ fu.pc \in {"initial", "threadPause",
                             "continuationPause"})]_vars

\* The first continuation page is asked for after the replies to a post of
\* the initial page have been fetched and merged.
C21_Witness ==
  /\ fu.pc = "continuation" /\ fu.continuationCount = 0
  /\ Len(fu.allTweets) >= 2
  /\ fu.allTweets[1].reply_count > 0
  /\ fu.allTweets[2].reply_count = 0

\* C26: in fetchAllReplies a rejected page request adds one to attempts;
\* after the pause the same page is requested again unless attempts has
\* reached 3, and only then the replies of the root post are given up; a
\* page that arrives sets attempts to 0.  The first page is treated like
\* the others.
C26_Attempts ==
  [][/\ \A rejection \in Rejections :
          ReplyFail(rejection)
            => (fu'.fr.attempts = fu.fr.attempts + 1
                /\ fu'.pc = "replyErrorPause")
     /\ \A response \in ReplyPages :
          ReplyDone(response) => fu'.fr.attempts = 0
     /\ ReplyErrorPause
          => IF fu.fr.attempts < REPLY_MAX_ATTEMPTS
               THEN /\ fu'.pc = "replies"
                    /\ fu'.fr = fu.fr
               ELSE fu'.pc = "threadPause"]_vars

\* C27: when the pause after a reply page ends, a further page is requested
\* only if the page held an accepted reply or at least 10 replies in all;
\* after a page with no accepted reply and fewer than 10 replies
\* fetchAllReplies returns, whatever token the page carried.
C27_PageDecision ==
  [][ReplyPause =>
       LET page == fu.fr.page[1]
       IN /\ fu'.pc = "replies"
               => (page.accepted >= 1 \/ page.length >= ManyReplies)
          /\ (page.accepted = 0 /\ page.length < ManyReplies)
               => (fu'.pc = "threadPause"
                   /\ Len(fu'.replies[1]) = Len(fu.fr.allReplies))]_vars

\* The second page of a root post holds replies, none of them accepted,
\* and a token, and ends the pagination.
C27_Witness ==
  /\ fu.pc = "replyPause"
  /\ fu.fr.fetched = 2
  /\ fu.fr.page[1].accepted = 0
  /\ fu.fr.page[1].length \in 1..(ManyReplies - 1)
  /\ fu.fr.page[1].continuation_token # None
  /\ fu.fr.continuationToken = None

\* C28: the list fetchAllReplies returns, of one reply or more, is in
\* ascending order of creation date and the thread_position of each reply
\* (thread_index is written with it, line 387) is its index in the list.
C28_ReplyOrder ==
  (fu.pc = "threadPause" /\ fu.replies # <<>>) =>
    LET replies == fu.replies[1]
    IN /\ \A k \in 1..(Len(replies) - 1) :
            replies[k].created_at <= replies[k + 1].created_at
       /\ \A k \in 1..Len(replies) : replies[k].thread_position = k - 1

\* C30: a run of fetchUserTweets requests at most maxContinuations (3)
\* continuation pages; it requests one only while the last timeline page
\* carried a continuation token and fewer than maxTweets posts are
\* accumulated, and a rejected continuation request ends the run.
C30_ContinuationCap ==
  /\ [](fu.continuationCount <= DefaultConfig.maxContinuations)
  /\ [][(fu'.pc = "continuation" /\ fu' # fu)
          => /\ fu'.continuationCount + 1 <= DefaultConfig.maxContinuations
             /\ fu'.continuationToken # None
             /\ Len(fu'.allTweets) < fu'.maxTweets]_vars
  /\ [][\A rejection \in Rejections :
          ContinuationFail(rejection) => fu'.pc = "done"]_vars

\* The third continuation page has arrived with a token and the posts are
\* fewer than maxTweets: the cap alone ends the loop.
C30_Witness ==
  /\ fu.pc = "continuationPause"
  /\ fu.continuationCount = DefaultConfig.maxContinuations
  /\ fu.continuationToken # None
  /\ Len(fu.allTweets) < fu.maxTweets

\* C31: a rejected continuation-page request ends the run of
\* fetchUserTweets at once, with no further request; the posts accumulated
\* so far are returned and put in the cache under the lower-case handle.
C31_ContinuationError ==
  [][\A rejection \in Rejections :
       ContinuationFail(rejection)
         => /\ fu'.pc = "done"
            /\ ~fu'.failed
            /\ fu'.result = <<fu.allTweets>>
            /\ MapHas(userTweets', toLowerCase(fu.username))
            /\ MapGet(userTweets', toLowerCase(fu.username))
                 = fu.allTweets]_vars

C31_Witness ==
  /\ Returned /\ fu.why = "continuation"
  /\ Len(fu.result[1]) >= 2
  /\ MapHas(userTweets, toLowerCase(fu.username))

\* C32: the list fetchUserTweets returns from the end of its try block
\* holds at most maxTweets posts: options.maxTweets when given, else
\* TwitterConfig.maxTweets.
C32_MaxTotal ==
  (Returned /\ ~fu.failed /\ ~fu.cached)
    => Len(fu.result[1]) <= fu.maxTweets

\* C33: when the answer of user/details carries no user id, the call of
\* fetchUserTweets ends in that step with the empty list: no timeline,
\* reply or continuation request is made, and the cache is left alone.
C33_NoUserId ==
  [][LookupDone([user_id |-> None])
       => /\ fu'.pc = "done"
          /\ fu'.result = <<<<>>>>
          /\ fu'.failed
          /\ userTweets' = userTweets]_vars

C33_Witness ==
  /\ Returned /\ fu.why = "noUserId"
  /\ fu.result = <<<<>>>>
  /\ userTweets = <<>>

\* C38: within one call of fetchAllReplies, after a page has arrived whose
\* response carries no continuation token no further page is requested, so
\* that no token serves for two pages that arrive.
C38_NoRefetch ==
  [][(ReplyPause /\ fu.fr.page[1].continuation_token = None)
       => fu'.pc = "threadPause"]_vars

(***************************************************************************)
(* Properties of overlapping calls of fetchUserTweets.                     *)
(***************************************************************************)
\* The cache is written only by the step that ends a call at line 566,
\* with the list that call returns.
WrittenAtEndOnly ==
  [][userTweets' # userTweets =>
       \E c \in 1..Len(runs) :
         /\ runs[c].pc = "running"
         /\ runs'[c].pc = "done" /\ ~runs'[c].failed
         /\ userTweets' = MapSet(userTweets, toLowerCase(runs[c].username),
                                 runs'[c].result[1])]_vars

\* A call that ends in the catch block returns the empty list and leaves
\* the cache as it is; as long as the cache holds nothing for the handle, a
\* call for it runs the pipeline.
FailureLeavesCache ==
  /\ [][\A c \in 1..Len(runs) :
          FailRun(c) => (runs'[c].result = <<<<>>>> /\ userTweets' = userTweets)]_vars
  /\ [][\A username \in Handles :
          (StartRun(username) /\ ~MapHas(userTweets, toLowerCase(username)))
            => runs'[Len(runs')].pc = "running"]_vars

\* An earlier call for the handle of call c has ended at line 566.
EndedBefore(c) ==
  \E d \in 1..(c - 1) :
    /\ toLowerCase(runs[d].username) = toLowerCase(runs[c].username)
    /\ runs[d].pc = "done" /\ ~runs[d].failed /\ ~runs[d].cached

\* C39 as stated: the cache is written only at the successful end of a
\* run, a failed run leaves it unchanged, and a call that starts while
\* another call for the same handle is running is never served from the
\* cache.
C39_Original ==
  /\ WrittenAtEndOnly
  /\ FailureLeavesCache
  /\ [](\A c \in 1..Len(runs) : runs[c].overlapped => ~runs[c].cached)

\* C39: the cache is written only at the successful end of a run, a failed
\* run leaves it unchanged, and a call that starts while another call for
\* the same handle is running is served from the cache only when an
\* earlier call for the handle has already ended at line 566.
C39_CacheAtEnd ==
  /\ WrittenAtEndOnly
  /\ FailureLeavesCache
  /\ [](\A c \in 1..Len(runs) :
          (runs[c].overlapped /\ runs[c].cached) => EndedBefore(c))

\* Two calls overlap, the first fails, the second has started without a
\* cached value and ends well; the cache holds what the second gathered.
C39_Witness ==
  /\ Len(runs) >= 2
  /\ runs[1].pc = "done" /\ runs[1].failed
  /\ runs[2].overlapped /\ ~runs[2].cached
  /\ runs[2].pc = "done" /\ ~runs[2].failed
  /\ MapHas(userTweets, toLowerCase(runs[2].username))
  /\ MapGet(userTweets, toLowerCase(runs[2].username)) = runs[2].result[1]

(***************************************************************************)
(* Properties of the walk from a root.                                     *)
(***************************************************************************)
\* No two places of the list q of tweet objects hold the same post.
DistinctPosts(q) ==
  \A e, f \in 1..Len(q) : tweets[q[e]].id = tweets[q[f]].id => e = f

\* Every member is a reply to a member: the links close a cycle.
NoRootAmong(members) ==
  \A e \in 1..Len(members) :
    \E f \in 1..Len(members) :
      tweets[members[e]].in_reply_to_tweet_id = tweets[members[f]].id

\* C35: groupThreads comes to an end on every array, cyclic or deeper than
\* 10: a walk from a root calls findReplies once for the root and once for
\* every post it adds, it adds no post twice and none but members, so it
\* makes no more calls than there are members; and no thread of the result
\* holds a post twice.
C35_WalkEnds ==
  gpc = "done" =>
    /\ \A w \in 1..Len(grouped.walks) :
         LET walk == grouped.walks[w] IN
           /\ DistinctPosts(walk.thread)
           /\ Range(walk.thread) \subseteq Range(walk.members)
           /\ walk.calls = Len(walk.thread)
           /\ walk.calls <= Len(walk.members)
    /\ \A e \in 1..Len(grouped.items) : DistinctPosts(grouped.items[e].tweets)

\* A closed chain longer than the walk goes deep: the walk stops at the
\* depth limit with posts left over.
C35_Witness ==
  /\ gpc = "done"
  /\ \E w \in 1..Len(grouped.walks) :
       LET walk == grouped.walks[w] IN
         /\ NoRootAmong(walk.members)
         /\ Len(walk.members) > MaxDepth + 2
         /\ Len(walk.thread) = MaxDepth + 2

(***************************************************************************)
(* Properties of the text fields of processTweet.                          *)
(***************************************************************************)
\* C34 as stated: is_long is true exactly when the raw text is longer than
\* 240 or detectTruncatedText of the cleaned full_text is true.
C34_Original ==
  normalized # <<>> =>
    normalized[1].post.is_long =
      (normalized[1].raw.len > 240
         \/ detectTruncatedText(normalized[1].post.full_text))

\* C34: is_long is true exactly when the raw text is longer than 280 or
\* detectTruncatedText of the raw text is true; a raw text of length 241
\* to 280 that detectTruncatedText does not flag gets is_long = false.
C34_IsLong ==
  normalized # <<>> =>
    LET raw == normalized[1].raw
        post == normalized[1].post
    IN /\ post.is_long = (raw.len > 280 \/ detectTruncatedText(raw))
       /\ (raw.len \in 241..280 /\ ~detectTruncatedText(raw)) => ~post.is_long

C34_Witness ==
  /\ normalized # <<>>
  /\ normalized[1].raw.len \in 241..280
  /\ ~detectTruncatedText(normalized[1].raw)
  /\ ~normalized[1].post.is_long

(***************************************************************************)
(* Properties of the sorts by creation date.                               *)
(***************************************************************************)
\* q is in ascending order of id.
AscendingIds(q, idOf(_)) ==
  \A k \in 1..(Len(q) - 1) : idOf(q[k]) < idOf(q[k + 1])

Unparsed == \A k \in 1..Len(ordered[1].posts) :
              ordered[1].posts[k].created_at = InvalidDate

\* C29: posts whose creation dates do not parse come out of the sort of
\* fetchAllReplies, and as the posts of the thread groupThreads makes of
\* them, in ascending order of id.
C29_IdFallback ==
  (ordered # <<>> /\ Unparsed /\ Len(ordered[1].posts) >= 2)
    => /\ AscendingIds(ordered[1].replies, LAMBDA t : t.id)
       /\ \A e \in 1..Len(ordered[1].grouped.items) :
            AscendingIds(ordered[1].grouped.items[e].tweets,
                         LAMBDA o : ordered[1].tweets[o].id)

(***************************************************************************)
(* Properties of TwitterConfig.                                            *)
(***************************************************************************)
ConfigInRange ==
  /\ config.fetchLimit \in 1..FetchLimitMax
  /\ config.maxTweets > 0

OutOfRangeIgnored ==
  /\ \A limit \in ConfigArgs :
       (SetFetchLimit(limit) /\ limit \notin 1..FetchLimitMax)
         => config' = config
  /\ \A max \in ConfigArgs :
       (SetMaxTweets(max) /\ max <= 0) => config' = config

\* C20: whatever the arguments of setFetchLimit and setMaxTweets, fetchLimit
\* stays within 1..100 and maxTweets stays greater than 0, and a call with
\* an out-of-range value leaves the configuration as it was.
C20_ConfigRange == []ConfigInRange /\ [][OutOfRangeIgnored]_vars

C20_Witness ==
  /\ rejected = 1
  /\ config.fetchLimit = FetchLimitMax
  /\ config.maxTweets = 1

====
